---- MODULE Spec2Model ----
(***************************************************************************)
(* Custom entity composition of hahomematic: the device-group table, the   *)
(* channel rebasing of entity_definition.py, the entity factory            *)
(* (make_custom_entity / _create_entities) and the command methods of the  *)
(* light platform (light.py), the lock platform (lock.py) and the generic  *)
(* switch (switch.py).                                                     *)
(***************************************************************************)
EXTENDS Integers, Sequences, FiniteSets, TLC

VARIABLES
    rb,                \* last call of _get_device_group: arguments and result
    device_channels,   \* device.channels: the channel numbers the device has
    device_params,     \* <<channel, parameter>> pairs of the VALUES paramsets
    custom_configs,    \* the CustomConfig entries of the device's model
    called,            \* the entries make_custom_entity has been called for
    central_entities,  \* central registry: unique_identifier -> entity
    add_entity_calls,  \* unique_identifier -> number of device.add_entity calls
    last,              \* last make_custom_entity call: arguments, trace, result
    procs,             \* setup paths running _create_entities step by step
    light,             \* one light entity: class, cached values of its fields
    cmd,               \* the call in progress or last made: name, arguments, result
    writes,            \* send_value / set_value calls of that call, in order
    lock,              \* one lock entity: class, cached values of its fields
    switch,            \* one HmSwitch entity: address, paramset, type, value
    entity_definition  \* the table handed to validate_entity_definition

vars == <<rb, device_channels, device_params, custom_configs, called,
          central_entities,
          add_entity_calls, last, procs, light, cmd, writes, lock, switch,
          entity_definition>>

(***************************************************************************)
(* Python values.  A dict is a function; {} and () are the empty function. *)
(***************************************************************************)
\* None, and an Optional value: the empty tuple, or the tuple of the value
None == << >>

Some(v) == <<v>>

EmptyDict == << >>

\* bool(x) of a dict, tuple or list
Truthy(x) == DOMAIN x # {}

\* d.get(k, default)
DictGet(d, k, default) == IF k \in DOMAIN d THEN d[k] ELSE default

\* d[k] = v
DictSet(d, k, v) == [x \in DOMAIN d \cup {k} |-> IF x = k THEN v ELSE d[x]]

(***************************************************************************)
(* The entity_definition table (entity_definition.py lines 161-528).       *)
(***************************************************************************)
EntityDefinition ==
    {"IP_COVER", "IP_DIMMER", "IP_GARAGE", "IP_SWITCH",
     "IP_FIXED_COLOR_LIGHT", "IP_SIMPLE_FIXED_COLOR_LIGHT", "IP_LOCK", "IP_THERMOSTAT",
     "IP_THERMOSTAT_GROUP", "IP_SIREN", "RF_COVER", "RF_DIMMER",
     "RF_DIMMER_COLOR", "RF_DIMMER_COLOR_TEMP", "RF_DIMMER_WITH_VIRT_CHANNEL", "RF_LOCK",
     "RF_THERMOSTAT", "RF_THERMOSTAT_GROUP", "RF_SIREN", "RF_SWITCH",
     "SIMPLE_RF_THERMOSTAT"}

DefinedKinds ==
    {"IP_COVER", "IP_DIMMER", "IP_GARAGE", "IP_FIXED_COLOR_LIGHT",
     "IP_SIMPLE_FIXED_COLOR_LIGHT", "IP_SWITCH", "IP_LOCK", "IP_SIREN",
     "IP_THERMOSTAT", "IP_THERMOSTAT_GROUP", "RF_COVER", "RF_DIMMER",
     "RF_DIMMER_COLOR", "RF_DIMMER_COLOR_TEMP", "RF_DIMMER_WITH_VIRT_CHANNEL", "RF_LOCK",
     "RF_SWITCH", "RF_THERMOSTAT", "RF_THERMOSTAT_GROUP", "SIMPLE_RF_THERMOSTAT"}

default_entities ==
    (0 :> <<"DUTY_CYCLE", "DUTYCYCLE", "LOW_BAT", "LOWBAT", "OPERATING_VOLTAGE", "RSSI_DEVICE", "RSSI_PEER", "SABOTAGE">>) @@
    (2 :> <<"BATTERY_STATE">>) @@
    (4 :> <<"BATTERY_STATE">>)

\* entity_definition.py lines 177-193
DEF_IP_COVER ==
    [device_group |-> [primary_channel |-> 1,
       repeatable_fields |-> [level |-> "LEVEL",
         level_2 |-> "LEVEL_2",
         stop |-> "STOP"],
       fields |-> (0 :> [direction |-> "ACTIVITY_STATE",
           channel_level |-> "LEVEL",
           channel_level_2 |-> "LEVEL_2"])]]

\* entity_definition.py lines 194-209
DEF_IP_DIMMER ==
    [device_group |-> [primary_channel |-> 1,
       secondary_channels |-> <<2, 3>>,
       repeatable_fields |-> [level |-> "LEVEL",
         on_time_value |-> "ON_TIME",
         ramp_time_value |-> "RAMP_TIME"],
       visible_fields |-> (0 :> [channel_level |-> "LEVEL"])]]

\* entity_definition.py lines 210-224
DEF_IP_GARAGE ==
    [device_group |-> [primary_channel |-> 0,
       repeatable_fields |-> [door_command |-> "DOOR_COMMAND",
         section |-> "SECTION"],
       visible_repeatable_fields |-> [door_state |-> "DOOR_STATE"]],
     additional_entities |-> (1 :> <<"STATE">>)]

\* entity_definition.py lines 225-244
DEF_IP_FIXED_COLOR_LIGHT ==
    [device_group |-> [primary_channel |-> 1,
       secondary_channels |-> <<2, 3>>,
       repeatable_fields |-> [color |-> "COLOR",
         level |-> "LEVEL",
         on_time_unit |-> "DURATION_UNIT",
         on_time_value |-> "DURATION_VALUE",
         ramp_time_unit |-> "RAMP_TIME_UNIT",
         ramp_time_value |-> "RAMP_TIME_VALUE"],
       visible_fields |-> (0 :> [channel_color |-> "COLOR",
           channel_level |-> "LEVEL"])]]

\* entity_definition.py lines 245-257
DEF_IP_SIMPLE_FIXED_COLOR_LIGHT ==
    [device_group |-> [primary_channel |-> 0,
       repeatable_fields |-> [color |-> "COLOR",
         level |-> "LEVEL",
         on_time_unit |-> "DURATION_UNIT",
         on_time_value |-> "DURATION_VALUE",
         ramp_time_unit |-> "RAMP_TIME_UNIT",
         ramp_time_value |-> "RAMP_TIME_VALUE"]]]

\* entity_definition.py lines 258-282
DEF_IP_SWITCH ==
    [device_group |-> [primary_channel |-> 1,
       secondary_channels |-> <<2, 3>>,
       repeatable_fields |-> [state |-> "STATE",
         on_time_value |-> "ON_TIME"],
       visible_fields |-> (0 :> [channel_state |-> "STATE"])],
     additional_entities |-> (4 :> <<"CURRENT", "ENERGY_COUNTER", "FREQUENCY", "POWER", "ACTUAL_TEMPERATURE", "VOLTAGE">>)]

\* entity_definition.py lines 283-297
DEF_IP_LOCK ==
    [device_group |-> [primary_channel |-> 1,
       repeatable_fields |-> [direction |-> "ACTIVITY_STATE",
         lock_state |-> "LOCK_STATE",
         lock_target_level |-> "LOCK_TARGET_LEVEL"],
       fields |-> (0 :> [error |-> "ERROR_JAMMED"])]]

\* entity_definition.py lines 298-310
DEF_IP_SIREN ==
    [device_group |-> [primary_channel |-> 3,
       repeatable_fields |-> [acoustic_alarm_active |-> "ACOUSTIC_ALARM_ACTIVE",
         optical_alarm_active |-> "OPTICAL_ALARM_ACTIVE",
         acoustic_alarm_selection |-> "ACOUSTIC_ALARM_SELECTION",
         optical_alarm_selection |-> "OPTICAL_ALARM_SELECTION",
         duration |-> "DURATION_VALUE",
         duration_unit |-> "DURATION_UNIT"]]]

\* entity_definition.py lines 311-338
DEF_IP_THERMOSTAT ==
    [device_group |-> [primary_channel |-> 0,
       repeatable_fields |-> [active_profile |-> "ACTIVE_PROFILE",
         boost_mode |-> "BOOST_MODE",
         control_mode |-> "CONTROL_MODE",
         heating_cooling |-> "HEATING_COOLING",
         party_mode |-> "PARTY_MODE",
         setpoint |-> "SET_POINT_TEMPERATURE",
         set_point_mode |-> "SET_POINT_MODE",
         temperature_maximum |-> "TEMPERATURE_MAXIMUM",
         temperature_minimum |-> "TEMPERATURE_MINIMUM"],
       visible_repeatable_fields |-> [humidity |-> "HUMIDITY",
         temperature |-> "ACTUAL_TEMPERATURE"],
       visible_fields |-> (0 :> [level |-> "LEVEL"]) @@
         (8 :> [state |-> "STATE"])]]

\* entity_definition.py lines 339-367
DEF_IP_THERMOSTAT_GROUP ==
    [device_group |-> [primary_channel |-> 0,
       repeatable_fields |-> [active_profile |-> "ACTIVE_PROFILE",
         boost_mode |-> "BOOST_MODE",
         control_mode |-> "CONTROL_MODE",
         heating_cooling |-> "HEATING_COOLING",
         party_mode |-> "PARTY_MODE",
         setpoint |-> "SET_POINT_TEMPERATURE",
         set_point_mode |-> "SET_POINT_MODE",
         temperature_maximum |-> "TEMPERATURE_MAXIMUM",
         temperature_minimum |-> "TEMPERATURE_MINIMUM"],
       visible_repeatable_fields |-> [humidity |-> "HUMIDITY",
         temperature |-> "ACTUAL_TEMPERATURE"],
       fields |-> (0 :> [level |-> "LEVEL"]) @@
         (3 :> [state |-> "STATE"])],
     include_default_entities |-> FALSE]

\* entity_definition.py lines 368-378
DEF_RF_COVER ==
    [device_group |-> [primary_channel |-> 0,
       repeatable_fields |-> [direction |-> "DIRECTION",
         level |-> "LEVEL",
         level_2 |-> "LEVEL_SLATS",
         stop |-> "STOP"]]]

\* entity_definition.py lines 379-388
DEF_RF_DIMMER ==
    [device_group |-> [primary_channel |-> 0,
       repeatable_fields |-> [level |-> "LEVEL",
         on_time_value |-> "ON_TIME",
         ramp_time_value |-> "RAMP_TIME"]]]

\* entity_definition.py lines 389-406
DEF_RF_DIMMER_COLOR ==
    [device_group |-> [primary_channel |-> 0,
       repeatable_fields |-> [level |-> "LEVEL",
         on_time_value |-> "ON_TIME",
         ramp_time_value |-> "RAMP_TIME"],
       fields |-> (1 :> [color |-> "COLOR"]) @@
         (2 :> [program |-> "PROGRAM"])]]

\* entity_definition.py lines 407-421
DEF_RF_DIMMER_COLOR_TEMP ==
    [device_group |-> [primary_channel |-> 0,
       repeatable_fields |-> [level |-> "LEVEL",
         on_time_value |-> "ON_TIME",
         ramp_time_value |-> "RAMP_TIME"],
       fields |-> (1 :> [color_temp |-> "LEVEL"])]]

\* entity_definition.py lines 422-432
DEF_RF_DIMMER_WITH_VIRT_CHANNEL ==
    [device_group |-> [primary_channel |-> 0,
       secondary_channels |-> <<1, 2>>,
       repeatable_fields |-> [level |-> "LEVEL",
         on_time_value |-> "ON_TIME",
         ramp_time_value |-> "RAMP_TIME"]]]

\* entity_definition.py lines 433-443
DEF_RF_LOCK ==
    [device_group |-> [primary_channel |-> 0,
       repeatable_fields |-> [direction |-> "DIRECTION",
         open |-> "OPEN",
         state |-> "STATE",
         error |-> "ERROR"]]]

\* entity_definition.py lines 444-461
DEF_RF_SWITCH ==
    [device_group |-> [primary_channel |-> 0,
       repeatable_fields |-> [state |-> "STATE",
         on_time_value |-> "ON_TIME"]],
     additional_entities |-> (1 :> <<"CURRENT", "ENERGY_COUNTER", "FREQUENCY", "POWER", "VOLTAGE">>)]

\* entity_definition.py lines 462-486
DEF_RF_THERMOSTAT ==
    [device_group |-> [primary_channel |-> 0,
       repeatable_fields |-> [auto_mode |-> "AUTO_MODE",
         boost_mode |-> "BOOST_MODE",
         comfort_mode |-> "COMFORT_MODE",
         control_mode |-> "CONTROL_MODE",
         lowering_mode |-> "LOWERING_MODE",
         manu_mode |-> "MANU_MODE",
         setpoint |-> "SET_TEMPERATURE",
         temperature_maximum |-> "TEMPERATURE_MAXIMUM",
         temperature_minimum |-> "TEMPERATURE_MINIMUM"],
       visible_repeatable_fields |-> [humidity |-> "ACTUAL_HUMIDITY",
         temperature |-> "ACTUAL_TEMPERATURE"],
       visible_fields |-> (0 :> [valve_state |-> "VALVE_STATE"])]]

\* entity_definition.py lines 487-512
DEF_RF_THERMOSTAT_GROUP ==
    [device_group |-> [primary_channel |-> 0,
       repeatable_fields |-> [auto_mode |-> "AUTO_MODE",
         boost_mode |-> "BOOST_MODE",
         comfort_mode |-> "COMFORT_MODE",
         control_mode |-> "CONTROL_MODE",
         lowering_mode |-> "LOWERING_MODE",
         manu_mode |-> "MANU_MODE",
         setpoint |-> "SET_TEMPERATURE",
         temperature_maximum |-> "TEMPERATURE_MAXIMUM",
         temperature_minimum |-> "TEMPERATURE_MINIMUM"],
       visible_repeatable_fields |-> [humidity |-> "ACTUAL_HUMIDITY",
         temperature |-> "ACTUAL_TEMPERATURE"],
       fields |-> (0 :> [valve_state |-> "VALVE_STATE"])],
     include_default_entities |-> FALSE]

\* entity_definition.py lines 513-526
DEF_SIMPLE_RF_THERMOSTAT ==
    [device_group |-> [primary_channel |-> 0,
       visible_repeatable_fields |-> [humidity |-> "HUMIDITY",
         temperature |-> "TEMPERATURE"],
       fields |-> (1 :> [setpoint |-> "SETPOINT"])]]

device_definitions ==
    [k \in DefinedKinds |->
        CASE k = "IP_COVER" -> DEF_IP_COVER
          [] k = "IP_DIMMER" -> DEF_IP_DIMMER
          [] k = "IP_GARAGE" -> DEF_IP_GARAGE
          [] k = "IP_FIXED_COLOR_LIGHT" -> DEF_IP_FIXED_COLOR_LIGHT
          [] k = "IP_SIMPLE_FIXED_COLOR_LIGHT" -> DEF_IP_SIMPLE_FIXED_COLOR_LIGHT
          [] k = "IP_SWITCH" -> DEF_IP_SWITCH
          [] k = "IP_LOCK" -> DEF_IP_LOCK
          [] k = "IP_SIREN" -> DEF_IP_SIREN
          [] k = "IP_THERMOSTAT" -> DEF_IP_THERMOSTAT
          [] k = "IP_THERMOSTAT_GROUP" -> DEF_IP_THERMOSTAT_GROUP
          [] k = "RF_COVER" -> DEF_RF_COVER
          [] k = "RF_DIMMER" -> DEF_RF_DIMMER
          [] k = "RF_DIMMER_COLOR" -> DEF_RF_DIMMER_COLOR
          [] k = "RF_DIMMER_COLOR_TEMP" -> DEF_RF_DIMMER_COLOR_TEMP
          [] k = "RF_DIMMER_WITH_VIRT_CHANNEL" -> DEF_RF_DIMMER_WITH_VIRT_CHANNEL
          [] k = "RF_LOCK" -> DEF_RF_LOCK
          [] k = "RF_SWITCH" -> DEF_RF_SWITCH
          [] k = "RF_THERMOSTAT" -> DEF_RF_THERMOSTAT
          [] k = "RF_THERMOSTAT_GROUP" -> DEF_RF_THERMOSTAT_GROUP
          [] k = "SIMPLE_RF_THERMOSTAT" -> DEF_SIMPLE_RF_THERMOSTAT]


(***************************************************************************)
(* Channel rebasing.                                                       *)
(***************************************************************************)
\* The KeyError a subscript of a missing key raises.
KeyError == [raised |-> "KeyError"]

\* _get_device: the table entry of the kind, None when it has none
_get_device(device_enum) ==
    LET device == DictGet(device_definitions, device_enum, None)
    IN  IF Truthy(device) THEN device ELSE None

\* faulty variant of _rebase_entity_dict: the channel keys are left as they are
_rebase_entity_dict_unshifted(entity_dict, group, base_channel_no) ==
    DictGet(group, entity_dict, EmptyDict)

\* _rebase_entity_dict: the channel keys of one field map shifted by the base
_rebase_entity_dict(entity_dict, group, base_channel_no) ==
    LET fields == DictGet(group, entity_dict, EmptyDict)
    IN  IF Truthy(fields)
        THEN [c \in {channel_no + base_channel_no : channel_no \in DOMAIN fields}
                |-> fields[c - base_channel_no]]
        ELSE EmptyDict

\* the primary channel of the rebased group
RebasedPrimary(group, base_channel_no) ==
    group.primary_channel + base_channel_no

\* the secondary channels of the rebased group, a list
RebasedSecondary(secondary_channel, base_channel_no) ==
    [i \in 1..Len(secondary_channel) |-> secondary_channel[i] + base_channel_no]

\* _get_device_group: the device group of the kind rebased to the base channel
_get_device_group(device_enum, base_channel_no) ==
    LET device == _get_device(device_enum)
        group == IF Truthy(device) THEN device.device_group ELSE EmptyDict
    IN  IF Truthy(device) /\ Truthy(group) /\ base_channel_no = 0 THEN group
        ELSE IF Truthy(device) /\ ~Truthy(group) THEN EmptyDict
        ELSE IF "primary_channel" \notin DOMAIN group THEN KeyError
        ELSE
          LET g1 == DictSet(group, "primary_channel",
                            RebasedPrimary(group, base_channel_no))
              secondary_channel == DictGet(g1, "secondary_channels", << >>)
              g2 == IF Truthy(secondary_channel)
                    THEN DictSet(g1, "secondary_channels",
                           RebasedSecondary(secondary_channel, base_channel_no))
                    ELSE g1
              g3 == DictSet(g2, "visible_fields",
                      _rebase_entity_dict("visible_fields", g2, base_channel_no))
          IN  DictSet(g3, "fields",
                      _rebase_entity_dict("fields", g3, base_channel_no))

\* _get_device_entities: the additional entities of the kind, keys shifted
_get_device_entities(device_enum, base_channel_no) ==
    LET additional_entities ==
            DictGet(DictGet(device_definitions, device_enum, EmptyDict),
                    "additional_entities", EmptyDict)
    IN  IF Truthy(additional_entities)
        THEN [c \in {channel_no + base_channel_no :
                        channel_no \in DOMAIN additional_entities}
                |-> additional_entities[c - base_channel_no]]
        ELSE EmptyDict

(***************************************************************************)
(* Rebasing on its own: _get_device_group applied to every kind and base.  *)
(***************************************************************************)
MaxBase == 5

RebaseInit ==
    /\ rb = [kind |-> "IP_DIMMER", base |-> 0,
             group |-> _get_device_group("IP_DIMMER", 0)]
    /\ device_channels = {}
    /\ device_params = {}
    /\ custom_configs = << >>
    /\ called = {}
    /\ central_entities = EmptyDict
    /\ add_entity_calls = EmptyDict
    /\ last = EmptyDict
    /\ procs = EmptyDict
    /\ light = EmptyDict
    /\ cmd = EmptyDict
    /\ writes = << >>
    /\ lock = EmptyDict
    /\ switch = EmptyDict
    /\ entity_definition = EmptyDict

Rebase ==
    \E device_enum \in EntityDefinition, base_channel_no \in 0..MaxBase :
        /\ rb' = [kind |-> device_enum, base |-> base_channel_no,
                  group |-> _get_device_group(device_enum, base_channel_no)]
        /\ UNCHANGED <<device_channels, device_params, custom_configs,
                       called, central_entities,
                       add_entity_calls, last, procs, light, cmd, writes, lock, switch,
          entity_definition>>

RebaseNext == Rebase

SpecRebase == RebaseInit /\ [][RebaseNext]_vars

\* the keys of a field map of a group, none when the group has no such map
FieldKeys(group, name) == DOMAIN DictGet(group, name, EmptyDict)

\* the reference shift of one field map: keys plus b, values identical
ShiftedFieldMap(S, G, name, b) ==
    /\ FieldKeys(G, name) = {k + b : k \in FieldKeys(S, name)}
    /\ \A k \in FieldKeys(S, name) : G[name][k + b] = S[name][k]

\* a map of the group is returned as it is in the table
SameEntry(S, G, name) ==
    /\ (name \in DOMAIN G) = (name \in DOMAIN S)
    /\ name \in DOMAIN S => G[name] = S[name]

\* C5: _get_device_group equals the reference shift. For every defined kind
\* with table group S and base b: b = 0 returns S unchanged; otherwise the
\* primary channel is S.primary_channel + b, every secondary channel is
\* increased by b, every key of fields and visible_fields is the table key
\* plus b with the identical field map, and repeatable_fields and
\* visible_repeatable_fields are the table's.
C5_RebaseIsShift ==
    rb.kind \in DefinedKinds =>
        LET S == device_definitions[rb.kind].device_group
            G == rb.group
            b == rb.base
            Ssec == DictGet(S, "secondary_channels", << >>)
            Gsec == DictGet(G, "secondary_channels", << >>)
        IN  /\ b = 0 => G = S
            /\ b # 0 =>
                /\ G.primary_channel = S.primary_channel + b
                /\ Len(Gsec) = Len(Ssec)
                /\ \A i \in 1..Len(Ssec) : Gsec[i] = Ssec[i] + b
                /\ ShiftedFieldMap(S, G, "fields", b)
                /\ ShiftedFieldMap(S, G, "visible_fields", b)
                /\ SameEntry(S, G, "repeatable_fields")
                /\ SameEntry(S, G, "visible_repeatable_fields")

\* C5 witness: a kind with secondary channels and a channel-keyed field map
\* has been rebased to a base other than 0.
C5_Witness ==
    /\ rb.kind = "IP_DIMMER" /\ rb.base = 3
    /\ rb.group.primary_channel = 4
    /\ rb.group.secondary_channels = <<5, 6>>
    /\ DOMAIN rb.group.visible_fields = {3}

(***************************************************************************)
(* The entity factory: make_custom_entity and _create_entities.            *)
(***************************************************************************)
DeviceAddress == "VCU2128127"

\* f"{device.device_address}:{channel_no}"
ChannelAddress(channel_no) == <<DeviceAddress, channel_no>>

\* generate_unique_identifier: a deterministic, injective function of the address
generate_unique_identifier(address) == address

\* central.has_entity
has_entity(entities, unique_identifier) == unique_identifier \in DOMAIN entities

\* device.add_entity: the entity is stored under its unique identifier
add_entity(reg, entity) ==
    [entities |-> DictSet(reg.entities, entity.unique_identifier, entity),
     adds |-> DictSet(reg.adds, entity.unique_identifier,
                      DictGet(reg.adds, entity.unique_identifier, 0) + 1)]

\* <<field, channel, parameter>> for the fields of a flat field map that the
\* device has a parameter for, bound on channel_no
BindFlat(field_map, channel_no) ==
    {<<f, channel_no, field_map[f]>> : f \in
        {f \in DOMAIN field_map : <<channel_no, field_map[f]>> \in device_params}}

\* the same for a channel-keyed field map
BindChannels(channel_map) ==
    UNION {BindFlat(channel_map[c], c) : c \in DOMAIN channel_map}

\* CustomEntity.__init__: the data entities the new entity binds
data_entities(device_def, channel_no, extended) ==
    BindFlat(DictGet(device_def, "repeatable_fields", EmptyDict), channel_no)
      \cup BindFlat(DictGet(device_def, "visible_repeatable_fields", EmptyDict),
                    channel_no)
      \cup BindChannels(DictGet(device_def, "fields", EmptyDict))
      \cup BindChannels(DictGet(device_def, "visible_fields", EmptyDict))
      \cup BindChannels(DictGet(extended, "fixed_channels", EmptyDict))

\* custom_entity_class(...): the entity object
custom_entity_class(unique_identifier, device_enum, device_def, entity_def, channel_no, extended) ==
    [unique_identifier |-> unique_identifier,
     device_enum |-> device_enum,
     channel_no |-> channel_no,
     entity_def |-> entity_def,
     data_entities |-> data_entities(device_def, channel_no, extended)]

\* faulty variant of AlreadyExists: the existence check is left out
AlreadyExistsNever(entities, unique_identifier) == FALSE

\* _create_entities line 591: the idempotence guard
AlreadyExists(entities, unique_identifier) ==
    has_entity(entities, unique_identifier)

\* faulty variant of ChannelMissing: the channel check is left out
ChannelMissingNever(channel_no) == FALSE

\* _create_entities line 594: the device has no such channel
ChannelMissing(channel_no) == channel_no \notin device_channels

\* faulty variant of HasDataEntities: an entity without data entities is kept
HasDataEntitiesAlways(entity) == TRUE

\* _create_entities line 605: the entity bound at least one field
HasDataEntities(entity) == Cardinality(entity.data_entities) > 0

\* _create_entities: reg is the registry before the call; the result holds
\* the registry after it, the returned tuple and what the call did
_create_entities(reg, device_enum, device_def, entity_def, channel_no, extended) ==
    LET unique_identifier == generate_unique_identifier(ChannelAddress(channel_no))
        entity == custom_entity_class(unique_identifier, device_enum, device_def,
                                      entity_def, channel_no, extended)
        step(why, instantiated) ==
            [channel_no |-> channel_no, outcome |-> why,
             instantiated |-> instantiated,
             n_data |-> IF instantiated THEN Cardinality(entity.data_entities)
                        ELSE 0]
    IN  IF AlreadyExists(reg.entities, unique_identifier)
        THEN [reg |-> reg, entities |-> << >>, step |-> step("exists", FALSE)]
        ELSE IF ChannelMissing(channel_no)
        THEN [reg |-> reg, entities |-> << >>, step |-> step("no_channel", FALSE)]
        ELSE IF HasDataEntities(entity)
        THEN [reg |-> add_entity(reg, entity), entities |-> <<entity>>,
              step |-> step("added", TRUE)]
        ELSE [reg |-> reg, entities |-> << >>, step |-> step("empty", TRUE)]

\* the elements of a set of channel numbers in the order a set of small
\* integers is iterated: ascending
RECURSIVE SetIter(_)
SetIter(S) ==
    IF S = {} THEN << >>
    ELSE LET m == CHOOSE x \in S : \A y \in S : x <= y
         IN  <<m>> \o SetIter(S \ {m})

\* faulty variant of GroupChannels: the secondary channels are forgotten
GroupChannelsPrimaryOnly(device_def) == <<device_def.primary_channel>>

\* make_custom_entity lines 558-561: set([primary] + secondary), iterated
GroupChannels(device_def) ==
    LET secondary_channels == DictGet(device_def, "secondary_channels", << >>)
        channels == IF Truthy(secondary_channels)
                    THEN <<device_def.primary_channel>> \o secondary_channels
                    ELSE <<device_def.primary_channel>>
    IN  SetIter({channels[i] : i \in 1..Len(channels)})

\* make_custom_entity lines 561-572: the loop over the channels of one group.
\* (r and next are bound as elements of one-element sets, so that each is
\* computed once.)
RECURSIVE CreateForChannels(_, _, _, _, _, _, _)
CreateForChannels(acc, device_enum, device_def, entity_def, base_channel, channels, extended) ==
    IF channels = << >> THEN acc
    ELSE CHOOSE out \in
             {CreateForChannels(next, device_enum, device_def, entity_def,
                                base_channel, Tail(channels), extended) :
                next \in
                  {[reg |-> r.reg, entities |-> acc.entities \o r.entities,
                    trace |-> Append(acc.trace, [base |-> base_channel] @@ r.step),
                    raised |-> FALSE] :
                     r \in {_create_entities(acc.reg, device_enum, device_def,
                                             entity_def, Head(channels), extended)}}} :
             TRUE

\* make_custom_entity lines 556-572: the loop over the base channels
RECURSIVE CreateForGroups(_, _, _, _, _)
CreateForGroups(acc, device_enum, entity_def, bases, extended) ==
    IF bases = << >> THEN acc
    ELSE CHOOSE out \in
             {IF "primary_channel" \notin DOMAIN device_def
              THEN [acc EXCEPT !.raised = TRUE, !.entities = << >>]
              ELSE CHOOSE res \in
                       {CreateForGroups(next, device_enum, entity_def,
                                        Tail(bases), extended) :
                          next \in {CreateForChannels(acc, device_enum, device_def,
                                                      entity_def, Head(bases),
                                                      GroupChannels(device_def),
                                                      extended)}} : TRUE :
                device_def \in {_get_device_group(device_enum, Head(bases))}} :
             TRUE

\* make_custom_entity
make_custom_entity(reg, device_enum, group_base_channels, extended) ==
    CHOOSE out \in
        {CreateForGroups(acc, device_enum, entity_def, group_base_channels,
                         extended) :
            acc \in {[reg |-> reg, entities |-> << >>, trace |-> << >>,
                      raised |-> FALSE]},
            entity_def \in {_get_device_entities(device_enum,
                                                 group_base_channels[1])}} : TRUE

(***************************************************************************)
(* The factory as a state machine: one device, set up by repeated          *)
(* make_custom_entity calls for the CustomConfig entries of its model.     *)
(***************************************************************************)
MaxChannel == 6

MaxGroupBase == 3

Channels == 0..MaxChannel

\* the kinds the make_* functions of light.py and lock.py compose, a kind
\* with additional entities, and a kind without table entry
FactoryKinds ==
    {"IP_DIMMER", "RF_DIMMER_COLOR", "RF_DIMMER_WITH_VIRT_CHANNEL", "IP_LOCK",
     "IP_SWITCH", "RF_SIREN"}

\* CustomConfig.channels: one base channel, or two adjacent ones
BaseChannelTuples ==
    {<<b>> : b \in 0..MaxGroupBase} \cup {<<b, b + 1>> : b \in 0..(MaxGroupBase - 1)}

\* CustomConfig.extended: none, or one fixed channel as in light.py line 635
ExtendedConfigs == {None, [fixed_channels |-> (2 :> [color |-> "COLOR"])]}

\* CustomConfig: the kind of the make function, the base channels, extended
CustomConfig ==
    [kind : FactoryKinds, channels : BaseChannelTuples, extended : ExtendedConfigs]

\* a DEVICES entry: one CustomConfig, or two of different kinds
DeviceConfigs ==
    {<<c>> : c \in CustomConfig}
      \cup {<<[c EXCEPT !.kind = "IP_DIMMER"], c>> :
              c \in {x \in CustomConfig : x.kind # "IP_DIMMER"}}

\* the parameters a channel of the device has in its VALUES paramset: those
\* of a dimmer, so that a lock kind binds no field on it
DeviceParameters == {"LEVEL", "ON_TIME", "RAMP_TIME", "COLOR"}

NoCall ==
    [op |-> "none", config |-> 0, kind |-> "none", bases |-> << >>,
     extended |-> None, repeat |-> FALSE, raised |-> FALSE, trace |-> << >>,
     result |-> << >>, adds |-> 0, before |-> {}]

Init ==
    /\ \E missing \in SUBSET Channels, bare \in SUBSET Channels :
          /\ Cardinality(missing \cup bare) <= 1
          /\ device_channels = Channels \ missing
          /\ device_params = (device_channels \ bare) \X DeviceParameters
    /\ custom_configs \in DeviceConfigs
    /\ called = {}
    /\ central_entities = EmptyDict
    /\ add_entity_calls = EmptyDict
    /\ last = NoCall
    /\ rb = EmptyDict
    /\ procs = EmptyDict
    /\ light = EmptyDict
    /\ cmd = EmptyDict
    /\ writes = << >>
    /\ lock = EmptyDict
    /\ switch = EmptyDict
    /\ entity_definition = EmptyDict

\* the number of add_entity calls recorded in a registry
RECURSIVE SumAdds(_, _)
SumAdds(adds, uids) ==
    IF uids = {} THEN 0
    ELSE LET u == CHOOSE x \in uids : TRUE
         IN  adds[u] + SumAdds(adds, uids \ {u})

\* one call of the make function of a CustomConfig of the device
MakeCustomEntity ==
    \E i \in 1..Len(custom_configs) :
      \E r \in {make_custom_entity(
                    [entities |-> central_entities, adds |-> add_entity_calls],
                    custom_configs[i].kind, custom_configs[i].channels,
                    custom_configs[i].extended)} :
        LET c == custom_configs[i]
        IN  /\ central_entities' = r.reg.entities
            /\ add_entity_calls' = r.reg.adds
            /\ called' = called \cup {i}
            /\ last' = [op |-> "make_custom_entity", config |-> i,
                        kind |-> c.kind, bases |-> c.channels,
                        extended |-> c.extended, repeat |-> i \in called,
                        raised |-> r.raised, trace |-> r.trace,
                        result |-> r.entities,
                        adds |-> SumAdds(r.reg.adds, DOMAIN r.reg.adds)
                                   - SumAdds(add_entity_calls,
                                             DOMAIN add_entity_calls),
                        before |-> DOMAIN central_entities]
            /\ UNCHANGED <<rb, device_channels, device_params, custom_configs,
                           procs, light, cmd, writes, lock,
                switch, entity_definition>>

Next == MakeCustomEntity

Spec == Init /\ [][Next]_vars

(***************************************************************************)
(* Properties of the factory.                                              *)
(***************************************************************************)
\* the entities of the returned tuple, the steps of the trace
Returned == {last.result[i] : i \in 1..Len(last.result)}

Steps == {last.trace[i] : i \in 1..Len(last.trace)}

UidOf(channel_no) == <<DeviceAddress, channel_no>>

\* the home channels the table asks for at base channel b: the primary
\* channel and the secondary channels of the kind, each plus b
HomeChannels(kind, b) ==
    LET S == device_definitions[kind].device_group
        sec == DictGet(S, "secondary_channels", << >>)
    IN  {S.primary_channel + b} \cup {sec[i] + b : i \in 1..Len(sec)}

\* C1: factory idempotence. Whatever calls were made, every registered
\* unique identifier was passed to add_entity exactly once, and a call of
\* make_custom_entity with arguments it was called with before returns no
\* entities and makes no add_entity call.
C1_FactoryIdempotent ==
    /\ DOMAIN add_entity_calls = DOMAIN central_entities
    /\ \A u \in DOMAIN add_entity_calls : add_entity_calls[u] = 1
    /\ last.repeat =>
          /\ last.result = << >>
          /\ last.adds = 0
          /\ DOMAIN central_entities = last.before

\* C1 witness: a repeated call met the three entities its first call had
\* registered.
C1_Witness ==
    /\ last.repeat
    /\ Cardinality({s \in Steps : s.outcome = "exists"}) = 3
    /\ \A s \in Steps : s.outcome = "exists" =>
          central_entities[UidOf(s.channel_no)].device_enum = last.kind

\* C2: missing channel. For a channel that is not among the device's
\* channels _create_entities instantiates nothing, registers nothing and
\* returns nothing; the other channels of the call are still processed:
\* the trace holds one step for every home channel of every base channel.
C2_MissingChannel ==
    /\ \A s \in Steps : s.channel_no \notin device_channels =>
          /\ ~s.instantiated
          /\ s.outcome = "no_channel"
          /\ UidOf(s.channel_no) \notin DOMAIN central_entities
          /\ \A e \in Returned : e.channel_no # s.channel_no
    /\ (last.op = "make_custom_entity" /\ last.kind \in DefinedKinds) =>
          {<<s.base, s.channel_no>> : s \in Steps} =
              UNION {{<<last.bases[i], c>> : c \in HomeChannels(last.kind, last.bases[i])} :
                     i \in 1..Len(last.bases)}

\* C2 witness: one call skipped a missing channel and then registered an
\* entity for a later channel of the same group.
C2_Witness ==
    \E i, j \in 1..Len(last.trace) :
        /\ i < j
        /\ last.trace[i].base = last.trace[j].base
        /\ last.trace[i].outcome = "no_channel"
        /\ last.trace[i].channel_no \notin device_channels
        /\ last.trace[j].outcome = "added"

\* C3: empty composite. An entity instantiated with zero data entities is
\* neither registered nor returned, and the returned entities are exactly
\* the entities this call passed to add_entity.
C3_EmptyComposite ==
    /\ \A s \in Steps : (s.instantiated /\ s.n_data = 0) =>
          /\ UidOf(s.channel_no) \notin DOMAIN central_entities
          /\ \A e \in Returned : e.channel_no # s.channel_no
    /\ \A u \in DOMAIN central_entities : central_entities[u].data_entities # {}
    /\ \A e \in Returned : e.data_entities # {}
    /\ {e.unique_identifier : e \in Returned} = DOMAIN central_entities \ last.before
    /\ \A e \in Returned : central_entities[e.unique_identifier] = e
    /\ last.adds = Len(last.result)

\* C3 witness: one call instantiated an entity that bound no field and
\* dropped it, and registered and returned another one.
C3_Witness ==
    /\ \E s \in Steps : s.instantiated /\ s.n_data = 0 /\ s.outcome = "empty"
    /\ \E s \in Steps : s.outcome = "added"
    /\ Len(last.result) >= 1

\* C6: entity count per group. For each base channel the call attempts
\* exactly one entity per home channel; IP_DIMMER at base channel 3 has the
\* home channels 4, 5 and 6, and when the device has all three with a LEVEL
\* parameter and none was registered before, 3 entities are returned, each
\* with its level field bound to LEVEL of its own channel.
C6_EntityCount ==
    (last.op = "make_custom_entity" /\ last.kind \in DefinedKinds) =>
        /\ \A i \in 1..Len(last.bases) :
              LET mine == {k \in 1..Len(last.trace) :
                             last.trace[k].base = last.bases[i]}
              IN  /\ {last.trace[k].channel_no : k \in mine} =
                       HomeChannels(last.kind, last.bases[i])
                  /\ Cardinality(mine) =
                       Cardinality(HomeChannels(last.kind, last.bases[i]))
        /\ (last.kind = "IP_DIMMER" /\ last.bases = <<3>>) =>
              /\ {s.channel_no : s \in Steps} = {4, 5, 6}
              /\ (/\ {4, 5, 6} \subseteq device_channels
                  /\ \A n \in {4, 5, 6} : <<n, "LEVEL">> \in device_params
                  /\ \A n \in {4, 5, 6} : UidOf(n) \notin last.before)
                 => /\ Len(last.result) = 3
                    /\ {e.channel_no : e \in Returned} = {4, 5, 6}
                    /\ \A e \in Returned :
                          <<"level", e.channel_no, "LEVEL">> \in e.data_entities

\* C6 witness: IP_DIMMER composed at base channel 3 returned 3 entities.
C6_Witness ==
    /\ last.kind = "IP_DIMMER" /\ last.bases = <<3>>
    /\ Len(last.result) = 3
    /\ {e.channel_no : e \in Returned} = {4, 5, 6}

(***************************************************************************)
(* Two setup paths running make_custom_entity for the same device, one     *)
(* statement of _create_entities at a time. Nothing in make_custom_entity  *)
(* or _create_entities takes a lock or otherwise serialises the paths.     *)
(***************************************************************************)
SetupPaths == {1, 2}

Idle ==
    [pc |-> "idle", kind |-> "none", extended |-> None, bases |-> << >>,
     device_def |-> EmptyDict, entity_def |-> EmptyDict, todo |-> << >>,
     entity |-> None, result |-> << >>]

ConcInit ==
    /\ \E bare \in SUBSET Channels :
          /\ Cardinality(bare) <= 1
          /\ device_channels = Channels
          /\ device_params = (device_channels \ bare) \X DeviceParameters
    /\ custom_configs \in {<<c>> : c \in {x \in CustomConfig : Len(x.channels) = 1}}
    /\ called = {}
    /\ central_entities = EmptyDict
    /\ add_entity_calls = EmptyDict
    /\ last = NoCall
    /\ rb = EmptyDict
    /\ procs = [p \in SetupPaths |-> Idle]
    /\ light = EmptyDict
    /\ cmd = EmptyDict
    /\ writes = << >>
    /\ lock = EmptyDict
    /\ switch = EmptyDict
    /\ entity_definition = EmptyDict

ConcUnchanged ==
    UNCHANGED <<rb, device_channels, device_params, custom_configs, called,
                last, light, cmd, writes, lock,
                switch, entity_definition>>

\* make_custom_entity lines 552-554: the call starts
ConcStart(p) ==
    /\ procs[p].pc = "idle"
    /\ \E i \in 1..Len(custom_configs) :
          LET c == custom_configs[i]
          IN  procs' = [procs EXCEPT ![p] =
                  [Idle EXCEPT !.pc = "group", !.kind = c.kind,
                               !.extended = c.extended, !.bases = c.channels,
                               !.entity_def =
                                   _get_device_entities(c.kind, c.channels[1])]]
    /\ UNCHANGED <<central_entities, add_entity_calls>>
    /\ ConcUnchanged

\* make_custom_entity lines 556-561: the next base channel, or the return
ConcGroup(p) ==
    /\ procs[p].pc = "group"
    /\ IF procs[p].bases = << >>
       THEN procs' = [procs EXCEPT ![p].pc = "done"]
       ELSE LET device_def == _get_device_group(procs[p].kind, Head(procs[p].bases))
            IN  IF "primary_channel" \notin DOMAIN device_def
                THEN procs' = [procs EXCEPT ![p].pc = "raised"]
                ELSE procs' = [procs EXCEPT ![p].pc = "check",
                                            ![p].device_def = device_def,
                                            ![p].bases = Tail(procs[p].bases),
                                            ![p].todo = GroupChannels(device_def)]
    /\ UNCHANGED <<central_entities, add_entity_calls>>
    /\ ConcUnchanged

\* _create_entities lines 588-595: the two guards for the next channel
ConcCheck(p) ==
    /\ procs[p].pc = "check"
    /\ IF procs[p].todo = << >>
       THEN procs' = [procs EXCEPT ![p].pc = "group"]
       ELSE LET channel_no == Head(procs[p].todo)
                unique_identifier ==
                    generate_unique_identifier(ChannelAddress(channel_no))
            IN  IF \/ AlreadyExists(central_entities, unique_identifier)
                   \/ ChannelMissing(channel_no)
                THEN procs' = [procs EXCEPT ![p].todo = Tail(procs[p].todo)]
                ELSE procs' = [procs EXCEPT ![p].pc = "instantiate"]
    /\ UNCHANGED <<central_entities, add_entity_calls>>
    /\ ConcUnchanged

\* _create_entities lines 596-604: the entity object is built
ConcInstantiate(p) ==
    /\ procs[p].pc = "instantiate"
    /\ LET channel_no == Head(procs[p].todo)
           entity == custom_entity_class(
                         generate_unique_identifier(ChannelAddress(channel_no)),
                         procs[p].kind, procs[p].device_def, procs[p].entity_def,
                         channel_no, procs[p].extended)
       IN  procs' = [procs EXCEPT ![p].pc = "register",
                                  ![p].entity = Some(entity)]
    /\ UNCHANGED <<central_entities, add_entity_calls>>
    /\ ConcUnchanged

\* _create_entities lines 605-608: the entity is registered and returned
ConcRegister(p) ==
    /\ procs[p].pc = "register"
    /\ LET entity == procs[p].entity[1]
           reg == add_entity([entities |-> central_entities,
                              adds |-> add_entity_calls], entity)
       IN  IF HasDataEntities(entity)
           THEN /\ central_entities' = reg.entities
                /\ add_entity_calls' = reg.adds
                /\ procs' = [procs EXCEPT ![p].pc = "check",
                                          ![p].entity = None,
                                          ![p].todo = Tail(procs[p].todo),
                                          ![p].result =
                                              Append(procs[p].result, entity)]
           ELSE /\ UNCHANGED <<central_entities, add_entity_calls>>
                /\ procs' = [procs EXCEPT ![p].pc = "check",
                                          ![p].entity = None,
                                          ![p].todo = Tail(procs[p].todo)]
    /\ ConcUnchanged

ConcNext ==
    \E p \in SetupPaths :
        \/ ConcStart(p)
        \/ ConcGroup(p)
        \/ ConcCheck(p)
        \/ ConcInstantiate(p)
        \/ ConcRegister(p)

SpecConc == ConcInit /\ [][ConcNext]_vars

\* C4 (as claimed; refuted by SpecConc): concurrent setup. In every interleaving of two setup paths at most
\* one entity is registered per unique identifier: add_entity is called at
\* most once for it, and the paths together return at most one entity for it.
C4_AtomicCheckAndRegister ==
    /\ \A u \in DOMAIN add_entity_calls : add_entity_calls[u] <= 1
    /\ \A p, q \in SetupPaths : \A i \in 1..Len(procs[p].result),
                                   j \in 1..Len(procs[q].result) :
          procs[p].result[i].unique_identifier = procs[q].result[j].unique_identifier
              => (p = q /\ i = j)

(***************************************************************************)
(* The light platform (light.py): cached values and command methods.       *)
(* A float is the fraction num/den; a write is one send_value call.        *)
(***************************************************************************)
Rat(n, d) == [num |-> n, den |-> d]

\* a fraction in lowest terms (Gcd: the greatest common divisor)
Lowest(a) ==
    LET RECURSIVE Gcd(_, _)
        Gcd(m, n) == IF n = 0 THEN m ELSE Gcd(n, m % n)
        g == Gcd(IF a.num < 0 THEN -a.num ELSE a.num, a.den)
    IN  Rat(a.num \div g, a.den \div g)

\* a = b as numbers
RatEq(a, b) == Lowest(a) = Lowest(b)

\* a < b, a > b for fractions with positive denominators
RatLt(a, b) == a.num * b.den < b.num * a.den

RatGt(a, b) == RatLt(b, a)

\* float(x) of an integer x
Float(x) == Rat(x, 1)

\* int(x) of a float: the fraction is cut off, towards zero
IntOf(x) ==
    IF x.num >= 0 THEN x.num \div x.den ELSE -((-x.num) \div x.den)

W(field, value) == [field |-> field, value |-> value]

HM_MAX_MIREDS == 500

HM_MIN_MIREDS == 153

HM_DIMMER_OFF == Rat(0, 1)

TIME_UNIT_SECONDS == 0

TIME_UNIT_MINUTES == 1

TIME_UNIT_HOURS == 2

HM_EFFECT_OFF == "Off"

\* CeColorDimmerEffect._effect_list
_effect_list ==
    <<HM_EFFECT_OFF, "Slow color change", "Medium color change",
      "Fast color change", "Campfire", "Waterfall", "TV simulation">>

\* list.index(x) for an x the list holds
ListIndex(list, x) == (CHOOSE i \in 1..Len(list) : list[i] = x) - 1

\* CeDimmer.is_on, CeIpFixedColorLight.is_on
is_on(l) == l.level # None /\ l.level[1].num > 0

\* faulty variant of brightness: level * 255 rounded up
brightness_up(l) ==
    IF l.level = None THEN 0
    ELSE (l.level[1].num * 255 + l.level[1].den - 1) \div l.level[1].den

\* CeDimmer.brightness, CeIpFixedColorLight.brightness:
\* int((level or 0.0) * 255)
brightness(l) ==
    IF l.level = None THEN 0
    ELSE (l.level[1].num * 255) \div l.level[1].den

\* CeColorDimmerEffect.effect
effect(l) ==
    IF l.effect # None THEN Some(_effect_list[l.effect[1] + 1]) ELSE None

\* BaseHmLight.set_ramp_time_value
BaseHmLight_set_ramp_time_value(ramp_time) ==
    <<W("ramp_time_value", ramp_time)>>

\* faulty variant of BaseHmLight_set_on_time_value: the value goes to the ramp time
BaseHmLight_set_on_time_value_ramp(on_time) ==
    <<W("ramp_time_value", on_time)>>

\* BaseHmLight.set_on_time_value
BaseHmLight_set_on_time_value(on_time) ==
    <<W("on_time_value", on_time)>>

\* faulty variant of DurationUnitValue: 16343 itself is escalated
DurationUnitValueInclusive(seconds) ==
    LET first == IF ~RatLt(seconds, Float(16343))
                 THEN <<TIME_UNIT_MINUTES, Rat(seconds.num, seconds.den * 60)>>
                 ELSE <<TIME_UNIT_SECONDS, seconds>>
    IN  IF ~RatLt(first[2], Float(16343))
        THEN <<TIME_UNIT_HOURS, Rat(first[2].num, first[2].den * 60)>>
        ELSE first

\* the unit escalation of CeIpFixedColorLight.set_on_time_value and
\* set_ramp_time_value: <<unit, value>>
DurationUnitValue(seconds) ==
    LET first == IF RatGt(seconds, Float(16343))
                 THEN <<TIME_UNIT_MINUTES, Rat(seconds.num, seconds.den * 60)>>
                 ELSE <<TIME_UNIT_SECONDS, seconds>>
    IN  IF RatGt(first[2], Float(16343))
        THEN <<TIME_UNIT_HOURS, Rat(first[2].num, first[2].den * 60)>>
        ELSE first

\* faulty variant of CeIpFixedColorLight_set_on_time_value: the value is sent
\* before the unit
CeIpFixedColorLight_set_on_time_value_first(on_time) ==
    <<W("on_time_value", DurationUnitValue(on_time)[2]),
      W("on_time_unit", DurationUnitValue(on_time)[1])>>

\* CeIpFixedColorLight.set_on_time_value
CeIpFixedColorLight_set_on_time_value(on_time) ==
    <<W("on_time_unit", DurationUnitValue(on_time)[1]),
      W("on_time_value", DurationUnitValue(on_time)[2])>>

\* CeIpFixedColorLight.set_ramp_time_value
CeIpFixedColorLight_set_ramp_time_value(ramp_time) ==
    <<W("ramp_time_unit", DurationUnitValue(ramp_time)[1]),
      W("ramp_time_value", DurationUnitValue(ramp_time)[2])>>

\* self.set_ramp_time_value: the method of the entity's class
set_ramp_time_value(l, ramp_time) ==
    IF l.class = "CeIpFixedColorLight"
    THEN CeIpFixedColorLight_set_ramp_time_value(ramp_time)
    ELSE BaseHmLight_set_ramp_time_value(ramp_time)

\* self.set_on_time_value: the method of the entity's class
set_on_time_value(l, on_time) ==
    IF l.class = "CeIpFixedColorLight"
    THEN CeIpFixedColorLight_set_on_time_value(on_time)
    ELSE BaseHmLight_set_on_time_value(on_time)

\* faulty variant of TargetBrightness: without "or 255"
TargetBrightnessOrZero(l, kwargs) ==
    DictGet(kwargs, "brightness", brightness(l))

\* BaseHmLight.turn_on line 144: kwargs.get("brightness", self.brightness) or 255
TargetBrightness(l, kwargs) ==
    LET given == DictGet(kwargs, "brightness", brightness(l))
    IN  IF given = 0 THEN 255 ELSE given

\* faulty variant of LevelWriteWanted: kwargs alone do not force the write
LevelWriteWantedIfChanged(l, kwargs) ==
    TargetBrightness(l, kwargs) # 0 /\ TargetBrightness(l, kwargs) # brightness(l)

\* BaseHmLight.turn_on lines 143-147: brightness and brightness != self.brightness
\* or kwargs
LevelWriteWanted(l, kwargs) ==
    \/ TargetBrightness(l, kwargs) # 0 /\ TargetBrightness(l, kwargs) # brightness(l)
    \/ Truthy(kwargs)

\* faulty variant of BaseHmLight_turn_on: the level is sent before the times
BaseHmLight_turn_on_level_first(l, kwargs) ==
    (IF LevelWriteWanted(l, kwargs)
     THEN <<W("level", Rat(TargetBrightness(l, kwargs), 255))>> ELSE << >>)
    \o (IF "ramp_time" \in DOMAIN kwargs
        THEN set_ramp_time_value(l, Float(kwargs["ramp_time"])) ELSE << >>)
    \o (IF "on_time" \in DOMAIN kwargs
        THEN set_on_time_value(l, Float(kwargs["on_time"])) ELSE << >>)

\* BaseHmLight.turn_on
BaseHmLight_turn_on(l, kwargs) ==
    (IF "ramp_time" \in DOMAIN kwargs
     THEN set_ramp_time_value(l, Float(kwargs["ramp_time"])) ELSE << >>)
    \o (IF "on_time" \in DOMAIN kwargs
        THEN set_on_time_value(l, Float(kwargs["on_time"])) ELSE << >>)
    \o (IF LevelWriteWanted(l, kwargs)
        THEN <<W("level", Rat(TargetBrightness(l, kwargs), 255))>> ELSE << >>)

\* faulty variant of BaseHmLight_turn_off: a light that is off is left alone
BaseHmLight_turn_off_if_on(l, kwargs) ==
    (IF "ramp_time" \in DOMAIN kwargs
     THEN set_ramp_time_value(l, Float(kwargs["ramp_time"])) ELSE << >>)
    \o (IF is_on(l) THEN <<W("level", HM_DIMMER_OFF)>> ELSE << >>)

\* BaseHmLight.turn_off
BaseHmLight_turn_off(l, kwargs) ==
    (IF "ramp_time" \in DOMAIN kwargs
     THEN set_ramp_time_value(l, Float(kwargs["ramp_time"])) ELSE << >>)
    \o <<W("level", HM_DIMMER_OFF)>>

\* round() of the fraction n/d >= 0: to the nearest integer, a tie to the even one
RoundHalfEven(n, d) ==
    LET q == n \div d
        r == n % d
    IN  IF 2 * r < d THEN q
        ELSE IF 2 * r > d THEN q + 1
        ELSE IF q % 2 = 0 THEN q ELSE q + 1

\* faulty variant of CeColorDimmer_hs_color: the code is scaled by 199
CeColorDimmer_hs_color_199(l) ==
    IF l.color # None
    THEN IF l.color[1] >= 200
         THEN <<Float(0), Float(0)>>
         ELSE <<Rat(l.color[1] * 360, 199), Float(100)>>
    ELSE <<Float(0), Float(0)>>

\* CeColorDimmer.hs_color
CeColorDimmer_hs_color(l) ==
    IF l.color # None
    THEN IF l.color[1] >= 200
         THEN <<Float(0), Float(0)>>
         ELSE <<Rat(l.color[1] * 360, 200), Float(100)>>
    ELSE <<Float(0), Float(0)>>

\* faulty variant of ColorCode: int() without round()
ColorCodeTruncated(hs_color) ==
    LET khue == hs_color[1]
        ksaturation == hs_color[2]
        hue == IF RatGt(khue, Float(360)) THEN Float(1)
               ELSE IF RatLt(khue, Float(0)) THEN Float(0)
               ELSE Rat(khue.num, khue.den * 360)
    IN  IF RatLt(Rat(ksaturation.num, ksaturation.den * 100), Rat(1, 10))
        THEN 200
        ELSE (hue.num * 199) \div hue.den

\* CeColorDimmer.turn_on lines 242-248: the colour code of (hue, saturation);
\* hue = khue / 360 clamped to 0..1, saturation = ksaturation / 100
ColorCode(hs_color) ==
    LET khue == hs_color[1]
        ksaturation == hs_color[2]
        hue == IF RatGt(khue, Float(360)) THEN Float(1)
               ELSE IF RatLt(khue, Float(0)) THEN Float(0)
               ELSE Rat(khue.num, khue.den * 360)
    IN  IF RatLt(Rat(ksaturation.num, ksaturation.den * 100), Rat(1, 10))
        THEN 200
        ELSE RoundHalfEven(hue.num * 199, hue.den)

\* CeColorDimmer.turn_on
CeColorDimmer_turn_on(l, kwargs) ==
    (IF "hs_color" \in DOMAIN kwargs
     THEN <<W("color", ColorCode(kwargs["hs_color"]))>> ELSE << >>)
    \o BaseHmLight_turn_on(l, kwargs)

\* faulty variant of CeColorDimmerEffect_turn_on: the effect is reset after
\* the colour is sent
CeColorDimmerEffect_turn_on_reset_last(l, kwargs) ==
    (IF "effect" \in DOMAIN kwargs
     THEN <<W("effect", ListIndex(_effect_list, kwargs["effect"]))>>
     ELSE << >>)
    \o CeColorDimmer_turn_on(l, kwargs)
    \o (IF "hs_color" \in DOMAIN kwargs /\ effect(l) # Some(HM_EFFECT_OFF)
        THEN <<W("effect", 0)>> ELSE << >>)

\* CeColorDimmerEffect.turn_on
CeColorDimmerEffect_turn_on(l, kwargs) ==
    (IF "hs_color" \in DOMAIN kwargs /\ effect(l) # Some(HM_EFFECT_OFF)
     THEN <<W("effect", 0)>> ELSE << >>)
    \o (IF "effect" \in DOMAIN kwargs
        THEN <<W("effect", ListIndex(_effect_list, kwargs["effect"]))>>
        ELSE << >>)
    \o CeColorDimmer_turn_on(l, kwargs)

\* CeColorTempDimmer.turn_on
CeColorTempDimmer_turn_on(l, kwargs) ==
    (IF "color_temp" \in DOMAIN kwargs
     THEN <<W("color_level", Rat(HM_MAX_MIREDS - kwargs["color_temp"],
                                 HM_MAX_MIREDS - HM_MIN_MIREDS))>>
     ELSE << >>)
    \o BaseHmLight_turn_on(l, kwargs)

\* faulty variant of _convert_color: the lower end of each band is included
_convert_color_inclusive(color) ==
    IF color = None THEN "WHITE"
    ELSE LET hue == IntOf(color[1][1])
             saturation == IntOf(color[1][2])
         IN  IF saturation < 5 THEN "WHITE"
             ELSE IF 30 <= hue /\ hue <= 90 THEN "YELLOW"
             ELSE IF 90 < hue /\ hue <= 150 THEN "GREEN"
             ELSE IF 150 < hue /\ hue <= 210 THEN "TURQUOISE"
             ELSE IF 210 < hue /\ hue <= 270 THEN "BLUE"
             ELSE IF 270 < hue /\ hue <= 330 THEN "PURPLE"
             ELSE "RED"

\* _convert_color
_convert_color(color) ==
    IF color = None THEN "WHITE"
    ELSE LET hue == IntOf(color[1][1])
             saturation == IntOf(color[1][2])
         IN  IF saturation < 5 THEN "WHITE"
             ELSE IF 30 < hue /\ hue <= 90 THEN "YELLOW"
             ELSE IF 90 < hue /\ hue <= 150 THEN "GREEN"
             ELSE IF 150 < hue /\ hue <= 210 THEN "TURQUOISE"
             ELSE IF 210 < hue /\ hue <= 270 THEN "BLUE"
             ELSE IF 270 < hue /\ hue <= 330 THEN "PURPLE"
             ELSE "RED"

\* faulty variant of HmSelect_send_value_int: every index is sent
HmSelect_send_value_any(field, value_list, value) ==
    IF Truthy(value_list) THEN <<W(field, value)>> ELSE << >>

\* HmSelect.send_value with an integer: the index is sent when the value
\* list holds it, nothing otherwise
HmSelect_send_value_int(field, value_list, value) ==
    IF Truthy(value_list) /\ 0 <= value /\ value < Len(value_list)
    THEN <<W(field, value)>>
    ELSE << >>

\* HmSelect.send_value with a name: the index of the name is sent when the
\* value list holds it, nothing otherwise
HmSelect_send_value_str(field, value_list, value) ==
    IF Truthy(value_list) /\ \E i \in 1..Len(value_list) : value_list[i] = value
    THEN <<W(field, ListIndex(value_list, value))>>
    ELSE << >>

\* CeIpFixedColorLight.turn_on
CeIpFixedColorLight_turn_on(l, kwargs) ==
    (IF "hs_color" \in DOMAIN kwargs
     THEN HmSelect_send_value_str("color", l.value_list,
                                  _convert_color(Some(kwargs["hs_color"])))
     ELSE << >>)
    \o BaseHmLight_turn_on(l, kwargs)

\* turn_on of the entity's class
turn_on(l, kwargs) ==
    CASE l.class = "CeDimmer" -> BaseHmLight_turn_on(l, kwargs)
      [] l.class = "CeColorDimmer" -> CeColorDimmer_turn_on(l, kwargs)
      [] l.class = "CeColorDimmerEffect" -> CeColorDimmerEffect_turn_on(l, kwargs)
      [] l.class = "CeColorTempDimmer" -> CeColorTempDimmer_turn_on(l, kwargs)
      [] l.class = "CeIpFixedColorLight" -> CeIpFixedColorLight_turn_on(l, kwargs)

\* turn_off of the entity's class: no class overrides BaseHmLight.turn_off
turn_off(l, kwargs) == BaseHmLight_turn_off(l, kwargs)

\* BaseHmLight.hs_color, CeColorDimmer.hs_color, CeIpFixedColorLight.hs_color:
\* the colour name of the fixed colour light is the HmSelect value, the entry
\* of the value list at the index; without a value it is str(default), which
\* _color_switcher does not hold
hs_color(l) ==
    LET _color_switcher ==
            [name \in {"WHITE", "RED", "YELLOW", "GREEN", "TURQUOISE", "BLUE",
                       "PURPLE"} |->
                CASE name = "WHITE" -> <<Float(0), Float(0)>>
                  [] name = "RED" -> <<Float(0), Float(100)>>
                  [] name = "YELLOW" -> <<Float(60), Float(100)>>
                  [] name = "GREEN" -> <<Float(120), Float(100)>>
                  [] name = "TURQUOISE" -> <<Float(180), Float(100)>>
                  [] name = "BLUE" -> <<Float(240), Float(100)>>
                  [] name = "PURPLE" -> <<Float(300), Float(100)>>]
    IN  CASE l.class \in {"CeColorDimmer", "CeColorDimmerEffect"} ->
               Some(CeColorDimmer_hs_color(l))
          [] l.class = "CeIpFixedColorLight" ->
               IF l.color # None /\ Truthy(l.value_list)
                  /\ l.value_list[l.color[1] + 1] \in DOMAIN _color_switcher
               THEN Some(_color_switcher[l.value_list[l.color[1] + 1]])
               ELSE Some(<<Float(0), Float(0)>>)
          [] OTHER -> None

\* BaseHmLight.color_temp, CeColorTempDimmer.color_temp
color_temp(l) ==
    IF l.class = "CeColorTempDimmer"
    THEN LET value == IF l.color_level = None THEN Float(0) ELSE l.color_level[1]
         IN  Some(IntOf(Rat(HM_MAX_MIREDS * value.den
                            - (HM_MAX_MIREDS - HM_MIN_MIREDS) * value.num,
                            value.den)))
    ELSE None

(***************************************************************************)
(* The light specification: one light entity, backend events that change  *)
(* its cached values, and turn_on / turn_off calls whose send_value calls  *)
(* are recorded in writes, in the order they are made, until the call      *)
(* returns.                                                                *)
(***************************************************************************)
Opt(S) == {None} \cup {Some(x) : x \in S}

\* values of LEVEL the backend reports
LevelValues == {Rat(0, 1), Rat(1, 2), Rat(1, 1)}

\* values of COLOR of a colour dimmer
ColorValues == {0, 200}

\* values of PROGRAM of an effect dimmer
EffectValues == {0, 4}

\* values of the colour-temperature LEVEL
ColorLevelValues == {Rat(1, 1)}

\* the value list of the COLOR parameter of a fixed colour light, and a
\* parameter that has none
FixedColorValueLists ==
    {<<"BLACK", "BLUE", "GREEN", "TURQUOISE", "RED", "PURPLE", "YELLOW", "WHITE">>,
     << >>}

NoLight ==
    [class |-> "CeDimmer", level |-> None, color |-> None, effect |-> None,
     color_level |-> None, value_list |-> << >>]

\* the light entities: each class with the fields its _init_entity_fields binds
Lights ==
    {[NoLight EXCEPT !.level = lv] : lv \in Opt(LevelValues)}
    \cup {[NoLight EXCEPT !.class = "CeColorDimmer", !.level = lv, !.color = c] :
            lv \in Opt(LevelValues), c \in Opt(ColorValues)}
    \cup {[NoLight EXCEPT !.class = "CeColorDimmerEffect", !.level = lv,
                          !.color = c, !.effect = e] :
            lv \in Opt(LevelValues), c \in Opt(ColorValues), e \in Opt(EffectValues)}
    \cup {[NoLight EXCEPT !.class = "CeColorTempDimmer", !.level = lv,
                          !.color_level = cl] :
            lv \in Opt(LevelValues), cl \in Opt(ColorLevelValues)}
    \cup {[NoLight EXCEPT !.class = "CeIpFixedColorLight", !.level = lv,
                          !.color = c, !.value_list = vl] :
            lv \in Opt(LevelValues), c \in Opt({0, 7}), vl \in FixedColorValueLists}

\* keyword arguments of the calls
RampTimes == {5, 16344, 1000000}

OnTimes == {10}

Brightnesses == {0, 128, 255}

HsColors == {<<Float(240), Float(100)>>, <<Float(120), Float(4)>>}

ColorTemps == {153}

Effects == {HM_EFFECT_OFF, "Campfire"}

KwArg(name, opt) == IF opt = None THEN EmptyDict ELSE name :> opt[1]

NoCmd == [op |-> "none", kwargs |-> EmptyDict]

LightInit ==
    /\ light \in Lights
    /\ cmd = NoCmd
    /\ writes = << >>
    /\ lock = EmptyDict
    /\ switch = EmptyDict
    /\ entity_definition = EmptyDict
    /\ rb = EmptyDict
    /\ device_channels = {}
    /\ device_params = {}
    /\ custom_configs = << >>
    /\ called = {}
    /\ central_entities = EmptyDict
    /\ add_entity_calls = EmptyDict
    /\ last = EmptyDict
    /\ procs = EmptyDict

LightUnchanged ==
    UNCHANGED <<rb, device_channels, device_params, custom_configs, called,
                central_entities, add_entity_calls, last, procs, lock,
                switch, entity_definition>>

\* a backend event changes a cached value of the entity between two calls
LightEvent ==
    /\ cmd.op = "none"
    /\ \E l \in Lights :
          /\ l.class = light.class
          /\ l.value_list = light.value_list
          /\ l # light
          /\ light' = l
    /\ UNCHANGED <<cmd, writes>>
    /\ LightUnchanged

\* one turn_on(**kwargs) call
TurnOn ==
    /\ cmd.op = "none"
    /\ \E r \in Opt(RampTimes), o \in Opt(OnTimes), b \in Opt(Brightnesses),
          h \in Opt(HsColors), t \in Opt(ColorTemps), e \in Opt(Effects) :
          LET kwargs == KwArg("ramp_time", r) @@ KwArg("on_time", o)
                        @@ KwArg("brightness", b) @@ KwArg("hs_color", h)
                        @@ KwArg("color_temp", t) @@ KwArg("effect", e)
          IN  /\ cmd' = [op |-> "turn_on", kwargs |-> kwargs]
              /\ writes' = turn_on(light, kwargs)
    /\ UNCHANGED light
    /\ LightUnchanged

\* one turn_off(**kwargs) call
TurnOff ==
    /\ cmd.op = "none"
    /\ \E r \in Opt(RampTimes), o \in Opt(OnTimes) :
          LET kwargs == KwArg("ramp_time", r) @@ KwArg("on_time", o)
          IN  /\ cmd' = [op |-> "turn_off", kwargs |-> kwargs]
              /\ writes' = turn_off(light, kwargs)
    /\ UNCHANGED light
    /\ LightUnchanged

\* the call returns: bind_collector sends what the call collected
CollectorSend ==
    /\ cmd.op # "none"
    /\ cmd' = NoCmd
    /\ writes' = << >>
    /\ UNCHANGED light
    /\ LightUnchanged

\* the read properties of the entity are read; each result is the value
\* returned, or None
ReadLight ==
    /\ cmd.op = "none"
    /\ cmd' = [op |-> "read", kwargs |-> EmptyDict,
               result |-> [is_on |-> Some(is_on(light)),
                           brightness |-> Some(brightness(light)),
                           hs_color |-> hs_color(light),
                           color_temp |-> color_temp(light),
                           effect |-> effect(light)]]
    /\ writes' = << >>
    /\ UNCHANGED light
    /\ LightUnchanged

\* one send_value call on the colour select of a fixed colour light, with
\* an index or with a name; isint is isinstance(value, int)
HmSelect_send_value ==
    /\ cmd.op = "none"
    /\ light.class = "CeIpFixedColorLight"
    /\ \/ \E value \in -1..(Len(light.value_list) + 1) :
             /\ cmd' = [op |-> "send_value", kwargs |-> ("value" :> value),
                        isint |-> TRUE]
             /\ writes' = HmSelect_send_value_int("color", light.value_list, value)
       \/ \E value \in {"RED", "WHITE", "PINK", ""} :
             /\ cmd' = [op |-> "send_value", kwargs |-> ("value" :> value),
                        isint |-> FALSE]
             /\ writes' = HmSelect_send_value_str("color", light.value_list, value)
    /\ UNCHANGED light
    /\ LightUnchanged

LightNext ==
    LightEvent \/ TurnOn \/ TurnOff \/ ReadLight \/ HmSelect_send_value
      \/ CollectorSend

SpecLight == LightInit /\ [][LightNext]_vars

(***************************************************************************)
(* Claims about the light commands (SpecLight).                            *)
(***************************************************************************)
RampFields == {"ramp_time_unit", "ramp_time_value"}

OnTimeFields == {"on_time_unit", "on_time_value"}

ExtraFields == {"color", "color_level", "effect"}

\* the positions of writes whose field is one of fields
WritesTo(fields) == {i \in 1..Len(writes) : writes[i].field \in fields}

\* the writes are ordered by the rank of their field
OrderedBy(rank) ==
    \A i \in 1..Len(writes), j \in 1..Len(writes) :
        i < j => rank[writes[i].field] <= rank[writes[j].field]

C8_Target ==
    LET given == IF "brightness" \in DOMAIN cmd.kwargs
                 THEN cmd.kwargs["brightness"] ELSE brightness(light)
    IN  IF given = 0 THEN 255 ELSE given

\* C8 as claimed: the level write is skipped only without a brightness argument
\* and with the target equal to the current brightness, and a turn_on with
\* unrelated kwargs only while the current brightness is non-zero makes no
\* level write.
C8_ClaimedGuard ==
    cmd.op = "turn_on" =>
        /\ WritesTo({"level"}) = {} =>
              "brightness" \notin DOMAIN cmd.kwargs /\ C8_Target = brightness(light)
        /\ ( /\ cmd.kwargs # EmptyDict
             /\ DOMAIN cmd.kwargs \subseteq {"ramp_time", "on_time"}
             /\ brightness(light) # 0 )
           => WritesTo({"level"}) = {}

\* C8 (amended): turn_on skips the level write only if no brightness argument
\* was supplied and the target brightness equals the current brightness; it
\* skips it exactly when no kwargs at all were supplied and the current
\* brightness is non-zero, so a turn_on with unrelated kwargs only while the
\* current brightness is non-zero makes one level write, of the current
\* brightness / 255.
C8_BrightnessGuard ==
    cmd.op = "turn_on" =>
        /\ WritesTo({"level"}) = {} =>
              "brightness" \notin DOMAIN cmd.kwargs /\ C8_Target = brightness(light)
        /\ (WritesTo({"level"}) = {}) =
              (cmd.kwargs = EmptyDict /\ brightness(light) # 0)
        /\ ( /\ cmd.kwargs # EmptyDict
             /\ DOMAIN cmd.kwargs \subseteq {"ramp_time", "on_time"}
             /\ brightness(light) # 0 )
           => /\ Cardinality(WritesTo({"level"})) = 1
              /\ \A i \in WritesTo({"level"}) :
                    RatEq(writes[i].value, Rat(brightness(light), 255))

\* C8 witness: a light of brightness 127 turned on with a ramp time only has
\* written its level.
C8_Witness ==
    /\ cmd.op = "turn_on"
    /\ DOMAIN cmd.kwargs = {"ramp_time"}
    /\ brightness(light) = 127
    /\ WritesTo({"level"}) # {}

\* C8 witness of the skipped write: a lit light turned on without kwargs.
C8_WitnessSkip ==
    /\ cmd.op = "turn_on"
    /\ cmd.kwargs = EmptyDict
    /\ brightness(light) = 255
    /\ writes = << >>

\* C9: a plain dimmer's turn_on makes a ramp-time write iff ramp_time is in
\* kwargs, an on-time write iff on_time is in kwargs, and at most one level
\* write; turn_on(brightness=b) with 0 < b <= 255 and another current
\* brightness makes exactly one write, level = b / 255.
C9_PlainDimmerWrites ==
    (cmd.op = "turn_on" /\ light.class = "CeDimmer") =>
        /\ Cardinality(WritesTo({"ramp_time_value"})) =
              (IF "ramp_time" \in DOMAIN cmd.kwargs THEN 1 ELSE 0)
        /\ Cardinality(WritesTo({"on_time_value"})) =
              (IF "on_time" \in DOMAIN cmd.kwargs THEN 1 ELSE 0)
        /\ \A i \in WritesTo({"ramp_time_value"}) :
              RatEq(writes[i].value, Rat(cmd.kwargs["ramp_time"], 1))
        /\ \A i \in WritesTo({"on_time_value"}) :
              RatEq(writes[i].value, Rat(cmd.kwargs["on_time"], 1))
        /\ Cardinality(WritesTo({"level"})) <= 1
        /\ ( /\ DOMAIN cmd.kwargs = {"brightness"}
             /\ 0 < cmd.kwargs["brightness"]
             /\ cmd.kwargs["brightness"] <= 255
             /\ cmd.kwargs["brightness"] # brightness(light) )
           => /\ Len(writes) = 1
              /\ writes[1].field = "level"
              /\ RatEq(writes[1].value, Rat(cmd.kwargs["brightness"], 255))

\* C9 witness: turn_on(brightness=128) of a dimmer of brightness 0 has made its
\* one write.
C9_Witness ==
    /\ cmd.op = "turn_on"
    /\ light.class = "CeDimmer"
    /\ cmd.kwargs = ("brightness" :> 128)
    /\ brightness(light) = 0
    /\ writes = <<W("level", Rat(128, 255))>>

\* C9 witness of the time writes: a dimmer turned on with a ramp and an on time.
C9_WitnessTimes ==
    /\ cmd.op = "turn_on"
    /\ light.class = "CeDimmer"
    /\ DOMAIN cmd.kwargs = {"ramp_time", "on_time"}
    /\ Len(writes) = 3

\* C10: every turn_off call makes a level write of 0.0 as its last write,
\* whatever the current level; a ramp-time write comes before it iff ramp_time
\* is in kwargs, and there is no on-time, colour or effect write.
C10_TurnOff ==
    cmd.op = "turn_off" =>
        /\ Len(writes) >= 1
        /\ writes[Len(writes)].field = "level"
        /\ RatEq(writes[Len(writes)].value, Rat(0, 1))
        /\ WritesTo({"level"}) = {Len(writes)}
        /\ (WritesTo(RampFields) # {}) = ("ramp_time" \in DOMAIN cmd.kwargs)
        /\ WritesTo(OnTimeFields \cup ExtraFields) = {}
        /\ WritesTo(RampFields) \cup WritesTo({"level"}) = 1..Len(writes)

\* C10 witness: a light that is off, turned off with a ramp time and an on
\* time, has written the ramp time and then level 0.0.
C10_Witness ==
    /\ cmd.op = "turn_off"
    /\ ~is_on(light)
    /\ DOMAIN cmd.kwargs = {"ramp_time", "on_time"}
    /\ Len(writes) >= 2
    /\ writes[1].field \in RampFields
    /\ writes[Len(writes)].field = "level"

(***************************************************************************)
(* The conversions of the light classes, each applied on its own           *)
(* (SpecCodec): the colour code of the colour dimmer, the duration         *)
(* encoding, and the colour name of the fixed colour light.                *)
(***************************************************************************)
\* the factory's variables, unused by the entity specifications
FactoryIdle ==
    /\ rb = EmptyDict
    /\ device_channels = {}
    /\ device_params = {}
    /\ custom_configs = << >>
    /\ called = {}
    /\ central_entities = EmptyDict
    /\ add_entity_calls = EmptyDict
    /\ last = EmptyDict
    /\ procs = EmptyDict

FactoryUnchanged ==
    UNCHANGED <<rb, device_channels, device_params, custom_configs, called,
                central_entities, add_entity_calls, last, procs>>

\* the largest colour code the backend reports
MaxColorCode == 201

\* the largest hue, in degrees
MaxHue == 361

\* how far around the two thresholds the durations go, in half seconds
MaxDelta == 3

\* the levels are the multiples of 1 / MaxLevelDen
MaxLevelDen == 10

\* a colour dimmer with each colour code, a dimmer and a fixed colour light
\* with each level, and one light of each other class
CodecInit ==
    /\ light \in {[NoLight EXCEPT !.class = "CeColorDimmer", !.color = c] :
                    c \in Opt(0..MaxColorCode)}
                 \cup {[NoLight EXCEPT !.class = c, !.level = Some(Rat(k, MaxLevelDen))] :
                         c \in {"CeDimmer", "CeIpFixedColorLight"}, k \in 0..MaxLevelDen}
                 \cup {[NoLight EXCEPT !.class = c] :
                         c \in {"CeDimmer", "CeColorDimmerEffect", "CeColorTempDimmer",
                                "CeIpFixedColorLight"}}
    /\ cmd = NoCmd
    /\ writes = << >>
    /\ lock = EmptyDict
    /\ switch = EmptyDict
    /\ entity_definition = EmptyDict
    /\ FactoryIdle

\* one turn_on(hs_color=(hue, saturation)) call: hues in whole degrees from
\* below 0 to above 360, saturations around the thresholds 5 and 10
TurnOnColor ==
    /\ cmd.op = "none"
    /\ \E hue \in {Float(k) : k \in -1..MaxHue},
          saturation \in {Float(0), Float(9), Rat(19, 2), Float(10), Float(100)} :
          LET kwargs == "hs_color" :> <<hue, saturation>>
          IN  /\ cmd' = [op |-> "turn_on", kwargs |-> kwargs]
              /\ writes' = turn_on(light, kwargs)
    /\ UNCHANGED light
    /\ LightUnchanged

\* the hs_color read from a colour dimmer is written back:
\* turn_on(hs_color=self.hs_color)
WriteBack ==
    /\ cmd.op = "none"
    /\ light.class = "CeColorDimmer"
    /\ LET kwargs == "hs_color" :> CeColorDimmer_hs_color(light)
       IN  /\ cmd' = [op |-> "write_back", kwargs |-> kwargs]
           /\ writes' = turn_on(light, kwargs)
    /\ UNCHANGED light
    /\ LightUnchanged

\* durations in seconds: around 16343 s and 16343 min, and three others
Durations ==
    {Rat(2 * 16343 + k, 2) : k \in -MaxDelta..MaxDelta}
    \cup {Rat(2 * 16343 * 60 + k, 2) : k \in -MaxDelta..MaxDelta}
    \cup {Float(0), Float(5), Float(1000000)}

\* one set_on_time_value(on_time) call
SetOnTimeValue ==
    /\ cmd.op = "none"
    /\ \E on_time \in Durations :
          /\ cmd' = [op |-> "set_on_time_value", kwargs |-> ("on_time" :> on_time)]
          /\ writes' = set_on_time_value(light, on_time)
    /\ UNCHANGED light
    /\ LightUnchanged

\* one set_ramp_time_value(ramp_time) call
SetRampTimeValue ==
    /\ cmd.op = "none"
    /\ \E ramp_time \in Durations :
          /\ cmd' = [op |-> "set_ramp_time_value",
                     kwargs |-> ("ramp_time" :> ramp_time)]
          /\ writes' = set_ramp_time_value(light, ramp_time)
    /\ UNCHANGED light
    /\ LightUnchanged

\* one _convert_color(color) call, as CeIpFixedColorLight.turn_on makes it:
\* no colour, or hues in half degrees and saturations around the threshold 5
ConvertColor ==
    /\ cmd.op = "none"
    /\ light.class = "CeIpFixedColorLight"
    /\ \E color \in Opt({<<h, s>> :
                            h \in {Rat(k, 2) : k \in -2..(2 * MaxHue)},
                            s \in {Float(0), Float(4), Rat(9, 2), Float(5),
                                   Float(100)}}) :
          cmd' = [op |-> "_convert_color", kwargs |-> ("color" :> color),
                  result |-> _convert_color(color)]
    /\ writes' = << >>
    /\ UNCHANGED light
    /\ LightUnchanged

SpecCodec ==
    CodecInit /\ [][TurnOnColor \/ WriteBack \/ SetOnTimeValue \/ SetRampTimeValue
                    \/ ConvertColor \/ ReadLight]_vars

\* the duration a set_on_time_value / set_ramp_time_value call was given
C11_Duration ==
    IF cmd.op = "set_on_time_value" THEN cmd.kwargs["on_time"]
    ELSE cmd.kwargs["ramp_time"]

C11_UnitField ==
    IF cmd.op = "set_on_time_value" THEN "on_time_unit" ELSE "ramp_time_unit"

C11_ValueField ==
    IF cmd.op = "set_on_time_value" THEN "on_time_value" ELSE "ramp_time_value"

\* the call wrote unit u and value v, once each, and nothing else
C11_Sent(u, v) ==
    /\ Len(writes) = 2
    /\ \E i \in 1..2 : writes[i].field = C11_UnitField /\ writes[i].value = u
    /\ \E i \in 1..2 : /\ writes[i].field = C11_ValueField
                       /\ RatEq(writes[i].value, v)

\* C11: on the fixed-colour light a duration d <= 16343 is sent as
\* (d, SECONDS = 0), 16343 < d with d / 60 <= 16343 as (d / 60, MINUTES = 1),
\* any other as (d / 3600, HOURS = 2); the other light classes send the raw
\* seconds and write no unit field.
C11_DurationEncoding ==
    cmd.op \in {"set_on_time_value", "set_ramp_time_value"} =>
        LET d == C11_Duration
        IN  IF light.class = "CeIpFixedColorLight"
            THEN IF d.num <= 16343 * d.den
                 THEN C11_Sent(0, d)
                 ELSE IF d.num <= 16343 * 60 * d.den
                 THEN C11_Sent(1, Rat(d.num, 60 * d.den))
                 ELSE C11_Sent(2, Rat(d.num, 3600 * d.den))
            ELSE /\ Len(writes) = 1
                 /\ writes[1].field = C11_ValueField
                 /\ RatEq(writes[1].value, d)

\* C11 witness: set_ramp_time_value(16344) on the fixed-colour light has sent
\* 272.4 minutes.
C11_Witness ==
    /\ cmd.op = "set_ramp_time_value"
    /\ light.class = "CeIpFixedColorLight"
    /\ RatEq(cmd.kwargs["ramp_time"], Float(16344))
    /\ C11_Sent(1, Rat(2724, 10))

\* code is the integer nearest to n / d, the even one of two (round)
Nearest(code, n, d) ==
    LET twice == 2 * (code * d - n)
    IN  /\ -d <= twice
        /\ twice <= d
        /\ (twice = d \/ twice = -d) => code % 2 = 0

\* C14 as claimed: is_on is true exactly when level > 0.0, and brightness is
\* round(level * 255), the integer nearest to it, for every level in [0, 1].
C14_ClaimedRounding ==
    (cmd.op = "read" /\ light.level # None) =>
        LET level == light.level[1]
        IN  /\ cmd.result.is_on = Some(level.num > 0)
            /\ cmd.result.brightness # None
            /\ Nearest(cmd.result.brightness[1], 255 * level.num, level.den)

\* C14 (amended): is_on is true exactly when level > 0.0, and brightness is
\* int(level * 255), level * 255 without its fractional part, for every
\* level in [0, 1].
C14_DimmerRead ==
    (cmd.op = "read" /\ light.level # None) =>
        LET level == light.level[1]
            b == cmd.result.brightness[1]
        IN  /\ cmd.result.is_on = Some(level.num > 0)
            /\ cmd.result.brightness # None
            /\ b * level.den <= 255 * level.num
            /\ 255 * level.num < (b + 1) * level.den

\* C14 witness: the level 0.5 of a dimmer has been read as on with
\* brightness 127.
C14_Witness ==
    /\ cmd.op = "read"
    /\ light.class = "CeDimmer"
    /\ light.level = Some(Rat(5, 10))
    /\ cmd.result.is_on = Some(TRUE)
    /\ cmd.result.brightness = Some(127)

\* C12: hs_color read from colour code c of a colour dimmer is (0, 0) when
\* c >= 200 or c is absent and (c / 200 * 360, 100) otherwise; turn_on with
\* hs_color = (h, s) writes code 200 when s < 10 and
\* round(clamp(h / 360, 0, 1) * 199) otherwise, so every written code lies
\* in 0..200.
C12_ColorCodec ==
    light.class \in {"CeColorDimmer", "CeColorDimmerEffect"} =>
        /\ cmd.op = "read" =>
              /\ cmd.result.hs_color # None
              /\ LET hs == cmd.result.hs_color[1]
                 IN  IF light.color = None \/ light.color[1] >= 200
                     THEN RatEq(hs[1], Float(0)) /\ RatEq(hs[2], Float(0))
                     ELSE /\ RatEq(hs[1], Rat(light.color[1] * 360, 200))
                          /\ RatEq(hs[2], Float(100))
        /\ (cmd.op = "turn_on" /\ "hs_color" \in DOMAIN cmd.kwargs) =>
              LET h == cmd.kwargs["hs_color"][1]
                  s == cmd.kwargs["hs_color"][2]
                  clamped == IF h.num > 360 * h.den THEN 360 * h.den
                             ELSE IF h.num < 0 THEN 0 ELSE h.num
              IN  /\ Cardinality(WritesTo({"color"})) = 1
                  /\ \A i \in WritesTo({"color"}) :
                        /\ writes[i].value \in 0..200
                        /\ IF s.num < 10 * s.den
                           THEN writes[i].value = 200
                           ELSE Nearest(writes[i].value, 199 * clamped, 360 * h.den)

\* C12 witness: turn_on(hs_color=(180, 100)) of a colour dimmer whose colour
\* code reads 100 has written code 100, the even neighbour of 99.5.
C12_Witness ==
    /\ cmd.op = "turn_on"
    /\ light.class = "CeColorDimmer"
    /\ light.color = Some(100)
    /\ cmd.kwargs = ("hs_color" :> <<Float(180), Float(100)>>)
    /\ \E i \in WritesTo({"color"}) : writes[i].value = 100

\* the name of the band (lo, hi] the hue h lies in, RED outside the bands
C13_Band(h) ==
    LET In(lo, hi) == RatLt(Float(lo), h) /\ ~RatLt(Float(hi), h)
    IN  IF In(30, 90) THEN "YELLOW"
        ELSE IF In(90, 150) THEN "GREEN"
        ELSE IF In(150, 210) THEN "TURQUOISE"
        ELSE IF In(210, 270) THEN "BLUE"
        ELSE IF In(270, 330) THEN "PURPLE"
        ELSE "RED"

\* C13 as claimed: for every (hue, saturation), saturation < 5 gives WHITE,
\* otherwise the band of the hue decides, and a missing colour gives WHITE;
\* the result is one of the 7 names.
C13_ClaimedBands ==
    cmd.op = "_convert_color" =>
        LET color == cmd.kwargs["color"]
        IN  /\ cmd.result \in {"WHITE", "YELLOW", "GREEN", "TURQUOISE", "BLUE",
                               "PURPLE", "RED"}
            /\ cmd.result =
                  IF color = None THEN "WHITE"
                  ELSE IF RatLt(color[1][2], Float(5)) THEN "WHITE"
                  ELSE C13_Band(color[1][1])

\* x without its fractional part, for a fraction x
C13_Cut(x) ==
    IF x.num >= 0 THEN x.num \div x.den ELSE -((-x.num) \div x.den)

\* C13 (amended): for every (hue, saturation), saturation < 5 gives WHITE;
\* otherwise the hue cut to an integer towards zero decides: in (30,90]
\* YELLOW, (90,150] GREEN, (150,210] TURQUOISE, (210,270] BLUE, (270,330]
\* PURPLE, every other RED; a missing colour gives WHITE.  The result is
\* always one of these 7 names.
C13_ConvertColor ==
    cmd.op = "_convert_color" =>
        LET color == cmd.kwargs["color"]
        IN  /\ cmd.result \in {"WHITE", "YELLOW", "GREEN", "TURQUOISE", "BLUE",
                               "PURPLE", "RED"}
            /\ cmd.result =
                  IF color = None THEN "WHITE"
                  ELSE IF RatLt(color[1][2], Float(5)) THEN "WHITE"
                  ELSE C13_Band(Float(C13_Cut(color[1][1])))

\* C13 witness: the hue 30.5 at full saturation has been converted to RED.
C13_Witness ==
    /\ cmd.op = "_convert_color"
    /\ cmd.kwargs["color"] = Some(<<Rat(61, 2), Float(100)>>)
    /\ cmd.result = "RED"

(***************************************************************************)
(* The lock entities CeIpLock and CeRfLock (SpecLock): a lock with the     *)
(* values the backend reported, its read properties and its commands.      *)
(***************************************************************************)
\* faulty variant of is_locked: the classic lock reports its state
is_locked_state(k) ==
    IF k.class = "CeIpLock"
    THEN k.lock_state # None /\ k.lock_state[1] = "LOCKED"
    ELSE k.state = Some(TRUE)

\* CeIpLock.is_locked, CeRfLock.is_locked
is_locked(k) ==
    IF k.class = "CeIpLock"
    THEN k.lock_state # None /\ k.lock_state[1] = "LOCKED"
    ELSE k.state # Some(TRUE)

\* faulty variant of is_locking: an absent direction reads as not locking
is_locking_bool(k) ==
    Some(k.direction # None /\ k.direction[1] = "DOWN")

\* CeIpLock.is_locking, CeRfLock.is_locking (HM_LOCKING = "DOWN")
is_locking(k) ==
    IF k.direction # None THEN Some(k.direction[1] = "DOWN") ELSE None

\* CeIpLock.is_unlocking, CeRfLock.is_unlocking (HM_UNLOCKING = "UP")
is_unlocking(k) ==
    IF k.direction # None THEN Some(k.direction[1] = "UP") ELSE None

\* faulty variant of is_jammed: any error value counts
is_jammed_any(k) ==
    IF k.class = "CeIpLock" THEN FALSE ELSE k.error # None

\* CeIpLock.is_jammed, CeRfLock.is_jammed
is_jammed(k) ==
    IF k.class = "CeIpLock"
    THEN FALSE
    ELSE k.error # None /\ k.error[1] # "NO_ERROR"

\* a lock of each class with each value of the fields its _init_entity_fields
\* binds, and a light no value has arrived for
LockInit ==
    /\ lock \in {[class |-> "CeIpLock", lock_state |-> ls, state |-> None,
                  direction |-> d, error |-> None] :
                    ls \in Opt({"UNKNOWN", "LOCKED", "UNLOCKED"}),
                    d \in Opt({"UP", "DOWN", "NONE"})}
                \cup {[class |-> "CeRfLock", lock_state |-> None, state |-> st,
                       direction |-> d, error |-> e] :
                        st \in Opt(BOOLEAN), d \in Opt({"UP", "DOWN", "NONE"}),
                        e \in Opt({"NO_ERROR", "CLUTCH_FAILURE"})}
    /\ light \in {[NoLight EXCEPT !.class = c] :
                    c \in {"CeDimmer", "CeColorDimmer", "CeColorDimmerEffect",
                           "CeColorTempDimmer", "CeIpFixedColorLight"}}
    /\ cmd = NoCmd
    /\ writes = << >>
    /\ switch = EmptyDict
    /\ entity_definition = EmptyDict
    /\ FactoryIdle

\* the read properties of the lock are read; each result is the value
\* returned, or None
ReadLock ==
    /\ cmd' = [op |-> "read_lock", kwargs |-> EmptyDict,
               result |-> [is_locked |-> Some(is_locked(lock)),
                           is_locking |-> is_locking(lock),
                           is_unlocking |-> is_unlocking(lock),
                           is_jammed |-> Some(is_jammed(lock))]]
    /\ writes' = << >>
    /\ UNCHANGED <<lock, light, switch, entity_definition>>
    /\ FactoryUnchanged

\* CeIpLock.lock, CeRfLock.lock (one call)
Lock ==
    /\ cmd' = [op |-> "lock", kwargs |-> EmptyDict]
    /\ writes' = IF lock.class = "CeIpLock"
                 THEN <<W("lock_target_level", "LOCKED")>>
                 ELSE <<W("state", FALSE)>>
    /\ UNCHANGED <<lock, light, switch, entity_definition>>
    /\ FactoryUnchanged

\* CeIpLock.unlock, CeRfLock.unlock (one call)
Unlock ==
    /\ cmd' = [op |-> "unlock", kwargs |-> EmptyDict]
    /\ writes' = IF lock.class = "CeIpLock"
                 THEN <<W("lock_target_level", "UNLOCKED")>>
                 ELSE <<W("state", TRUE)>>
    /\ UNCHANGED <<lock, light, switch, entity_definition>>
    /\ FactoryUnchanged

\* faulty variant of Open: the classic lock is opened through its state
OpenByState ==
    /\ cmd' = [op |-> "open", kwargs |-> EmptyDict]
    /\ writes' = IF lock.class = "CeIpLock"
                 THEN <<W("lock_target_level", "OPEN")>>
                 ELSE <<W("state", TRUE), W("open", TRUE)>>
    /\ UNCHANGED <<lock, light, switch, entity_definition>>
    /\ FactoryUnchanged

\* CeIpLock.open, CeRfLock.open (one call)
Open ==
    /\ cmd' = [op |-> "open", kwargs |-> EmptyDict]
    /\ writes' = IF lock.class = "CeIpLock"
                 THEN <<W("lock_target_level", "OPEN")>>
                 ELSE <<W("open", TRUE)>>
    /\ UNCHANGED <<lock, light, switch, entity_definition>>
    /\ FactoryUnchanged

SpecLock == LockInit /\ [][ReadLock \/ Lock \/ Unlock \/ Open \/ ReadLight]_vars

\* C15: the IP lock reports is_locked true exactly when lock_state is LOCKED;
\* the classic lock reports is_locked false when state is true and true when
\* state is false.
C15_IsLocked ==
    cmd.op = "read_lock" =>
        /\ lock.class = "CeIpLock" =>
              cmd.result.is_locked = Some(lock.lock_state = Some("LOCKED"))
        /\ (lock.class = "CeRfLock" /\ lock.state = Some(TRUE)) =>
              cmd.result.is_locked = Some(FALSE)
        /\ (lock.class = "CeRfLock" /\ lock.state = Some(FALSE)) =>
              cmd.result.is_locked = Some(TRUE)

\* C15 witness: a classic lock whose state is true has been read as not locked.
C15_Witness ==
    /\ cmd.op = "read_lock"
    /\ lock.class = "CeRfLock"
    /\ lock.state = Some(TRUE)
    /\ cmd.result.is_locked = Some(FALSE)

\* C16: the IP lock's is_jammed is false in every state; the classic lock's
\* is_jammed is true exactly when the error field holds a value and that
\* value is not NO_ERROR.
C16_IsJammed ==
    cmd.op = "read_lock" =>
        cmd.result.is_jammed =
            Some(/\ lock.class = "CeRfLock"
                 /\ lock.error \notin {None, Some("NO_ERROR")})

\* C16 witness: a classic lock whose error field holds NO_ERROR has been read
\* as not jammed.
C16_Witness ==
    /\ cmd.op = "read_lock"
    /\ lock.class = "CeRfLock"
    /\ lock.error = Some("NO_ERROR")
    /\ cmd.result.is_jammed = Some(FALSE)

\* C17: each of lock, unlock and open issues exactly one write: on the IP
\* lock LOCKED, UNLOCKED and OPEN to the target-level field; on the classic
\* lock lock writes state = false, unlock state = true, and open writes true
\* to the open field and does not write state.
C17_LockCommands ==
    cmd.op \in {"lock", "unlock", "open"} =>
        /\ Len(writes) = 1
        /\ IF lock.class = "CeIpLock"
           THEN /\ writes[1].field = "lock_target_level"
                /\ writes[1].value = (CASE cmd.op = "lock" -> "LOCKED"
                                        [] cmd.op = "unlock" -> "UNLOCKED"
                                        [] cmd.op = "open" -> "OPEN")
           ELSE /\ writes[1].field = (IF cmd.op = "open" THEN "open" ELSE "state")
                /\ writes[1].value = (cmd.op # "lock")

\* C17 witness: open of a classic lock has written true to the open field.
C17_Witness ==
    /\ cmd.op = "open"
    /\ lock.class = "CeRfLock"
    /\ writes = <<W("open", TRUE)>>

\* C20 as claimed: a light or lock read property whose supporting field has
\* no value returns None; an absent state is not reported as a definite
\* locked / on / off value.
C20_GracefulDegradation ==
    /\ cmd.op = "read" =>
          /\ light.level = None =>
                cmd.result.is_on = None /\ cmd.result.brightness = None
          /\ (light.class \in {"CeColorDimmer", "CeColorDimmerEffect",
                                "CeIpFixedColorLight"} /\ light.color = None) =>
                cmd.result.hs_color = None
          /\ (light.class = "CeColorTempDimmer" /\ light.color_level = None) =>
                cmd.result.color_temp = None
          /\ (light.class = "CeColorDimmerEffect" /\ light.effect = None) =>
                cmd.result.effect = None
    /\ cmd.op = "read_lock" =>
          /\ (lock.class = "CeIpLock" /\ lock.lock_state = None) =>
                cmd.result.is_locked = None
          /\ (lock.class = "CeRfLock" /\ lock.state = None) =>
                cmd.result.is_locked = None
          /\ (lock.class = "CeRfLock" /\ lock.error = None) =>
                cmd.result.is_jammed = None
          /\ lock.direction = None =>
                cmd.result.is_locking = None /\ cmd.result.is_unlocking = None

(***************************************************************************)
(* The generic switch HmSwitch (SpecSwitch).  A write is a record of the   *)
(* client.set_value call: its target is the sink (the call is made at      *)
(* once) or the collector the caller passed (the call is made when the     *)
(* collector sends).                                                       *)
(***************************************************************************)
\* a switch on a channel and paramset, with the value the backend reported
SwitchInit ==
    /\ switch \in [channel_address : {"VCU2128127:4", "VCU2128127:5"},
                   paramset_key : {"VALUES", "MASTER"},
                   value : Opt(BOOLEAN)]
    /\ cmd = NoCmd
    /\ writes = << >>
    /\ light = EmptyDict
    /\ lock = EmptyDict
    /\ entity_definition = EmptyDict
    /\ FactoryIdle

\* faulty variant of HmSwitch_turn_on: the state is sent before the on time
HmSwitch_turn_on_state_first ==
    /\ \E kwargs \in {EmptyDict} \cup {"on_time" :> t : t \in {0, 1, 60, 3600}},
          collector \in BOOLEAN :
          /\ cmd' = [op |-> "turn_on", kwargs |-> kwargs, collector |-> collector]
          /\ writes' =
                <<[target |-> IF collector THEN "collector" ELSE "sink",
                   channel_address |-> switch.channel_address,
                   paramset_key |-> switch.paramset_key,
                   parameter |-> "STATE", value |-> TRUE]>>
                \o (IF "on_time" \in DOMAIN kwargs
                    THEN <<[target |-> "sink",
                            channel_address |-> switch.channel_address,
                            paramset_key |-> switch.paramset_key,
                            parameter |-> "ON_TIME",
                            value |-> Float(kwargs["on_time"])]>>
                    ELSE << >>)
    /\ UNCHANGED <<switch, light, lock, entity_definition>>
    /\ FactoryUnchanged

\* HmSwitch.turn_on (one call): set_on_time_value without the collector,
\* then send_value(True) with it
HmSwitch_turn_on ==
    /\ \E kwargs \in {EmptyDict} \cup {"on_time" :> t : t \in {0, 1, 60, 3600}},
          collector \in BOOLEAN :
          /\ cmd' = [op |-> "turn_on", kwargs |-> kwargs, collector |-> collector]
          /\ writes' =
                (IF "on_time" \in DOMAIN kwargs
                 THEN <<[target |-> "sink",
                         channel_address |-> switch.channel_address,
                         paramset_key |-> switch.paramset_key,
                         parameter |-> "ON_TIME",
                         value |-> Float(kwargs["on_time"])]>>
                 ELSE << >>)
                \o <<[target |-> IF collector THEN "collector" ELSE "sink",
                      channel_address |-> switch.channel_address,
                      paramset_key |-> switch.paramset_key,
                      parameter |-> "STATE", value |-> TRUE]>>
    /\ UNCHANGED <<switch, light, lock, entity_definition>>
    /\ FactoryUnchanged

\* HmSwitch.turn_off (one call)
HmSwitch_turn_off ==
    /\ \E collector \in BOOLEAN :
          /\ cmd' = [op |-> "turn_off", kwargs |-> EmptyDict,
                     collector |-> collector]
          /\ writes' = <<[target |-> IF collector THEN "collector" ELSE "sink",
                          channel_address |-> switch.channel_address,
                          paramset_key |-> switch.paramset_key,
                          parameter |-> "STATE", value |-> FALSE]>>
    /\ UNCHANGED <<switch, light, lock, entity_definition>>
    /\ FactoryUnchanged

\* HmSwitch.set_on_time_value (one call)
HmSwitch_set_on_time_value ==
    /\ \E on_time \in {Rat(354, 10), Rat(1, 2), Float(60)} :
          /\ cmd' = [op |-> "set_on_time_value", kwargs |-> ("on_time" :> on_time),
                     collector |-> FALSE]
          /\ writes' = <<[target |-> "sink",
                          channel_address |-> switch.channel_address,
                          paramset_key |-> switch.paramset_key,
                          parameter |-> "ON_TIME", value |-> on_time]>>
    /\ UNCHANGED <<switch, light, lock, entity_definition>>
    /\ FactoryUnchanged

SpecSwitch ==
    SwitchInit /\ [][HmSwitch_turn_on \/ HmSwitch_turn_off
                     \/ HmSwitch_set_on_time_value]_vars

\* write i is made on the switch's own channel and paramset, of parameter p
C18_Own(i, p) ==
    /\ writes[i].channel_address = switch.channel_address
    /\ writes[i].paramset_key = switch.paramset_key
    /\ writes[i].parameter = p

\* C18: turn_on(on_time = t) issues two writes on the switch's own channel
\* and paramset, ON_TIME = float(t) at once and then STATE = True as the last
\* call (at once unless the caller passed a collector); turn_on without
\* on_time issues only STATE = True; turn_off issues only STATE = False;
\* set_on_time_value(t) issues only ON_TIME = t.
C18_SwitchCommands ==
    /\ (cmd.op = "turn_on" /\ "on_time" \in DOMAIN cmd.kwargs) =>
          /\ Len(writes) = 2
          /\ C18_Own(1, "ON_TIME")
          /\ writes[1].target = "sink"
          /\ RatEq(writes[1].value, Rat(cmd.kwargs["on_time"], 1))
          /\ C18_Own(2, "STATE")
          /\ writes[2].value = TRUE
          /\ ~cmd.collector => writes[2].target = "sink"
    /\ (cmd.op = "turn_on" /\ "on_time" \notin DOMAIN cmd.kwargs) =>
          /\ Len(writes) = 1
          /\ C18_Own(1, "STATE")
          /\ writes[1].value = TRUE
          /\ ~cmd.collector => writes[1].target = "sink"
    /\ cmd.op = "turn_off" =>
          /\ Len(writes) = 1
          /\ C18_Own(1, "STATE")
          /\ writes[1].value = FALSE
          /\ ~cmd.collector => writes[1].target = "sink"
    /\ cmd.op = "set_on_time_value" =>
          /\ Len(writes) = 1
          /\ C18_Own(1, "ON_TIME")
          /\ writes[1].target = "sink"
          /\ RatEq(writes[1].value, cmd.kwargs["on_time"])

\* C18 witness: turn_on(on_time = 60) without a collector on VCU2128127:4 has
\* written ON_TIME = 60.0 and then STATE = True, both at once.
C18_Witness ==
    /\ cmd.op = "turn_on"
    /\ cmd.kwargs = ("on_time" :> 60)
    /\ ~cmd.collector
    /\ switch.channel_address = "VCU2128127:4"
    /\ switch.paramset_key = "VALUES"
    /\ Len(writes) = 2
    /\ writes[1].parameter = "ON_TIME" /\ writes[1].value = Float(60)
    /\ writes[2].parameter = "STATE" /\ writes[2].value = TRUE
    /\ writes[1].target = "sink" /\ writes[2].target = "sink"

(***************************************************************************)
(* The validation of the entity_definition table (SpecValidate).  The      *)
(* table is the one of the module or one with a structural defect; the     *)
(* schema is checked as voluptuous checks a dict schema: every Required    *)
(* key is there and no key is there that the schema does not name.  (The   *)
(* types of the values are not part of the model: every defect is one of   *)
(* the keys.)                                                              *)
(***************************************************************************)
\* SCHEMA_DEVICE_DESCRIPTION with SCHEMA_ED_DEVICE_GROUPS and
\* SCHEMA_ED_DEVICE_GROUP: TRUE when the table t is valid, FALSE when
\* vol.Invalid is raised
SCHEMA_DEVICE_DESCRIPTION(t) ==
    LET SCHEMA_ED_DEVICE_GROUP(g) ==
            /\ "primary_channel" \in DOMAIN g
            /\ DOMAIN g \subseteq {"primary_channel", "secondary_channels",
                                   "repeatable_fields", "visible_repeatable_fields",
                                   "fields", "visible_fields"}
        SCHEMA_ED_DEVICE_GROUPS(d) ==
            /\ "device_group" \in DOMAIN d
            /\ DOMAIN d \subseteq {"device_group", "additional_entities",
                                   "include_default_entities"}
            /\ SCHEMA_ED_DEVICE_GROUP(d.device_group)
    IN  /\ DOMAIN t = {"default_entities", "device_definitions"}
        /\ DOMAIN t.device_definitions \subseteq EntityDefinition
        /\ \A k \in DOMAIN t.device_definitions :
              SCHEMA_ED_DEVICE_GROUPS(t.device_definitions[k])

\* the table of the module, and the tables that differ from it by one
\* defect: a key dropped or an unknown key added, in the table, in the entry
\* of one kind or in its device group
ValidateInit ==
    LET table == [default_entities |-> default_entities,
                  device_definitions |-> device_definitions]
        Drop(r, key) == [f \in DOMAIN r \ {key} |-> r[f]]
        Add(r, key) == (key :> << >>) @@ r
        WithKind(k, d) ==
            [table EXCEPT !.device_definitions =
                [device_definitions EXCEPT ![k] = d]]
        WithGroup(k, g) ==
            WithKind(k, (("device_group" :> g) @@ device_definitions[k]))
    IN  /\ entity_definition \in
              {table, Drop(table, "default_entities"),
               Drop(table, "device_definitions"), Add(table, "device_groups"),
               [table EXCEPT !.device_definitions =
                   Add(device_definitions, "NO_SUCH_KIND")]}
              \cup {WithKind(k, Drop(device_definitions[k], "device_group")) :
                      k \in DefinedKinds}
              \cup {WithKind(k, Add(device_definitions[k], "entities")) :
                      k \in DefinedKinds}
              \cup {WithGroup(k, Drop(device_definitions[k].device_group,
                                      "primary_channel")) : k \in DefinedKinds}
              \cup {WithGroup(k, Add(device_definitions[k].device_group,
                                     "channels")) : k \in DefinedKinds}
       /\ cmd = NoCmd
       /\ writes = << >>
       /\ light = EmptyDict
       /\ lock = EmptyDict
       /\ switch = EmptyDict
       /\ FactoryIdle

\* validate_entity_definition (one call): the validated table is returned;
\* vol.Invalid is caught and logged, and None is returned
validate_entity_definition ==
    /\ cmd.op = "none"
    /\ cmd' = IF SCHEMA_DEVICE_DESCRIPTION(entity_definition)
              THEN [op |-> "validate_entity_definition", kwargs |-> EmptyDict,
                    raised |-> FALSE, logged |-> FALSE,
                    result |-> Some(entity_definition)]
              ELSE [op |-> "validate_entity_definition", kwargs |-> EmptyDict,
                    raised |-> FALSE, logged |-> TRUE, result |-> None]
    /\ UNCHANGED <<entity_definition, writes, light, lock, switch>>
    /\ FactoryUnchanged

SpecValidate == ValidateInit /\ [][validate_entity_definition]_vars

\* C19 as claimed: for a table that fails the structural validation,
\* validate_entity_definition raises an error to its caller; it never returns
\* normally.
C19_ValidationFatal ==
    (cmd.op = "validate_entity_definition"
     /\ ~SCHEMA_DEVICE_DESCRIPTION(entity_definition)) => cmd.raised

(***************************************************************************)
(* Further properties of the rebasing and of the factory.                  *)
(***************************************************************************)
\* C21 as claimed: rebasing a kind without entry in the table yields an
\* empty schema and raises nothing.
C21_EmptySchema ==
    rb.kind \notin DefinedKinds => DOMAIN rb.group = {}

\* C22 as claimed: the additional-entities spec of every entity a call
\* registered is the spec of the kind with every channel key shifted by the
\* base channel of the entity's group.
C22_AdditionalEntitiesRebased ==
    (last.op = "make_custom_entity" /\ ~last.raised) =>
        \A s \in Steps : \A e \in Returned :
            (s.outcome = "added" /\ e.channel_no = s.channel_no) =>
                LET spec == DictGet(DictGet(device_definitions, last.kind, EmptyDict),
                                    "additional_entities", EmptyDict)
                IN  /\ DOMAIN e.entity_def = {c + s.base : c \in DOMAIN spec}
                    /\ \A c \in DOMAIN spec : e.entity_def[c + s.base] = spec[c]

\* C23 as claimed: an entity is skipped as already existing only if the
\* entity registered under its identifier is of the same kind.
C23_KindInIdentifier ==
    last.op = "make_custom_entity" =>
        \A s \in Steps :
            s.outcome = "exists" =>
                central_entities[UidOf(s.channel_no)].device_enum = last.kind


\* ---------------------------------------------------------------------------
\* C24: in every set_on_time_value and set_ramp_time_value call of the fixed
\* colour light the unit field is written before the numeric value field,
\* and each of the two is written exactly once (also when the unit is SECONDS).
C24_UnitBeforeValue ==
    (light.class = "CeIpFixedColorLight"
       /\ cmd.op \in {"set_on_time_value", "set_ramp_time_value"}) =>
        LET name == IF cmd.op = "set_on_time_value" THEN "on_time" ELSE "ramp_time"
            units == WritesTo({name \o "_unit"})
            values == WritesTo({name \o "_value"})
        IN  /\ Cardinality(units) = 1
            /\ Cardinality(values) = 1
            /\ Len(writes) = 2
            /\ \A i \in units, j \in values : i < j

\* C24 witness: a duration in seconds was set on a fixed colour light; the
\* unit SECONDS was written first and the value second.
C24_Witness ==
    /\ light.class = "CeIpFixedColorLight"
    /\ cmd.op = "set_ramp_time_value"
    /\ Len(writes) = 2
    /\ writes[1] = W("ramp_time_unit", TIME_UNIT_SECONDS)
    /\ writes[2].field = "ramp_time_value"

\* ---------------------------------------------------------------------------
\* C25: on the colour and effect dimmer, turn_on with hs_color while an effect
\* is active (the current effect is a listed name other than "Off") writes
\* effect index 0 before the colour write; when the current effect is "Off"
\* no effect-reset write is issued: the only effect write is that of an
\* effect argument.
C25_EffectReset ==
    (light.class = "CeColorDimmerEffect" /\ cmd.op = "turn_on"
       /\ "hs_color" \in DOMAIN cmd.kwargs /\ light.effect # None) =>
        LET effects == WritesTo({"effect"})
            colors == WritesTo({"color"})
            asked == IF "effect" \in DOMAIN cmd.kwargs THEN 1 ELSE 0
        IN  IF _effect_list[light.effect[1] + 1] # "Off"
            THEN /\ Cardinality(effects) = 1 + asked
                 /\ Cardinality(colors) = 1
                 /\ writes[1] = W("effect", 0)
                 /\ \A j \in colors : 1 < j
            ELSE /\ Cardinality(effects) = asked
                 /\ \A i \in effects :
                       _effect_list[writes[i].value + 1] = cmd.kwargs["effect"]

\* C25 witness: a dimmer showing the effect "Campfire" was turned on with a
\* colour and no effect; the effect was reset and then the colour written.
C25_Witness ==
    /\ light.class = "CeColorDimmerEffect"
    /\ cmd.op = "turn_on"
    /\ DOMAIN cmd.kwargs = {"hs_color"}
    /\ light.effect = Some(4)
    /\ Len(writes) >= 2
    /\ writes[1] = W("effect", 0)
    /\ writes[2].field = "color"

\* ---------------------------------------------------------------------------
\* C26: for both lock kinds is_locking is true exactly when the direction is
\* DOWN and is_unlocking exactly when it is UP; when the direction is absent
\* both are None, not false; is_locking and is_unlocking are never both true.
C26_DirectionTriState ==
    cmd.op = "read_lock" =>
        /\ (cmd.result.is_locking = Some(TRUE)) = (lock.direction = Some("DOWN"))
        /\ (cmd.result.is_unlocking = Some(TRUE)) = (lock.direction = Some("UP"))
        /\ (lock.direction = None) =>
              (cmd.result.is_locking = None /\ cmd.result.is_unlocking = None)
        /\ (lock.direction # None) =>
              (cmd.result.is_locking # None /\ cmd.result.is_unlocking # None)
        /\ ~(cmd.result.is_locking = Some(TRUE) /\ cmd.result.is_unlocking = Some(TRUE))

\* C26 witness: a lock without a direction was read and is neither known to be
\* locking nor to be unlocking.
C26_Witness ==
    /\ cmd.op = "read_lock"
    /\ lock.class = "CeRfLock"
    /\ lock.direction = None
    /\ cmd.result.is_locking = None
    /\ cmd.result.is_unlocking = None

\* ---------------------------------------------------------------------------
\* C27 as claimed: when a collector is supplied to a command, every write of
\* that command is appended to the collector and none reaches the parameter
\* sink directly, the on-time write of HmSwitch.turn_on included.
C27_CollectorDiscipline ==
    (cmd.op # "none" /\ cmd.collector) =>
        \A i \in 1..Len(writes) : writes[i].target = "collector"

\* ---------------------------------------------------------------------------
\* C28: HmSelect.send_value forwards a write only when the argument is an
\* integer i with 0 <= i < len(value_list), forwarded as it is, or a string
\* contained in value_list, forwarded as its index; in every other case
\* (index out of range, unknown name, empty value list) nothing is written,
\* so every forwarded value is an integer in 0..len(value_list)-1.
C28_SelectForwardsValidIndices ==
    cmd.op = "send_value" =>
        LET value == cmd.kwargs["value"]
            value_list == light.value_list
            valid == IF cmd.isint
                     THEN 0 <= value /\ value < Len(value_list)
                     ELSE \E i \in 1..Len(value_list) : value_list[i] = value
        IN  /\ Len(writes) = (IF valid THEN 1 ELSE 0)
            /\ \A i \in 1..Len(writes) :
                  /\ writes[i].field = "color"
                  /\ writes[i].value \in 0..(Len(value_list) - 1)
                  /\ IF cmd.isint
                     THEN writes[i].value = value
                     ELSE value_list[writes[i].value + 1] = value

\* C28 witness: the name "RED" was sent to a select that lists it and was
\* forwarded as its index.
C28_Witness ==
    /\ cmd.op = "send_value"
    /\ ~cmd.isint
    /\ cmd.kwargs["value"] = "RED"
    /\ Len(writes) = 1
    /\ light.value_list[writes[1].value + 1] = "RED"

\* ---------------------------------------------------------------------------
\* C29: turn_on never writes level 0: for every combination of kwargs, with a
\* brightness in 0..255 or without one, every level written by
\* BaseHmLight.turn_on is greater than 0; a brightness argument of 0, and an
\* absent brightness while the current brightness is 0, are both written as
\* level 1.0 (255/255).
C29_NeverLevelZero ==
    cmd.op = "turn_on" =>
        /\ \A i \in WritesTo({"level"}) : RatGt(writes[i].value, Float(0))
        /\ ( IF "brightness" \in DOMAIN cmd.kwargs
             THEN cmd.kwargs["brightness"] = 0
             ELSE light.level = None \/ light.level[1].num * 255 < light.level[1].den )
           => /\ Cardinality(WritesTo({"level"})) = 1
              /\ \A i \in WritesTo({"level"}) : RatEq(writes[i].value, Float(1))

\* C29 witness: a light was turned on with brightness 0 and its level was
\* written as 1.0.
C29_Witness ==
    /\ cmd.op = "turn_on"
    /\ "brightness" \in DOMAIN cmd.kwargs
    /\ cmd.kwargs["brightness"] = 0
    /\ Len(writes) > 0
    /\ writes[Len(writes)].field = "level"
    /\ RatEq(writes[Len(writes)].value, Float(1))

\* ---------------------------------------------------------------------------
\* C30 as claimed: for every colour code c in 0..200 of a colour dimmer,
\* writing back the hs_color read for c writes the same code c.
C30_ClaimedRoundTrip ==
    (cmd.op = "write_back" /\ light.color # None /\ light.color[1] <= 200) =>
        /\ Cardinality(WritesTo({"color"})) = 1
        /\ \A i \in WritesTo({"color"}) : writes[i].value = light.color[1]

\* C30 (amended): for every colour code c in 0..100 and for c = 200 of a
\* colour dimmer, writing back the hs_color read for c writes the same code
\* c; for every c in 101..199 it writes c - 1.
C30_RoundTrip ==
    (cmd.op = "write_back" /\ light.color # None /\ light.color[1] <= 200) =>
        /\ Cardinality(WritesTo({"color"})) = 1
        /\ \A i \in WritesTo({"color"}) :
              writes[i].value = IF light.color[1] <= 100 \/ light.color[1] = 200
                                THEN light.color[1]
                                ELSE light.color[1] - 1

\* C30 witness: the colour read for code 150 was written back as code 149.
C30_Witness ==
    /\ cmd.op = "write_back"
    /\ light.color = Some(150)
    /\ \E i \in WritesTo({"color"}) : writes[i].value = 149
====
